---- MODULE Spec2Model ----
(***************************************************************************)
(* A model of the arboriter-mcts search engine: the node/tree data model,  *)
(* the node pool, the selection policies and the search loop of            *)
(* src/src/mcts.rs, src/src/tree.rs and src/src/policy/selection.rs.       *)
(*                                                                         *)
(* Numbers.  f64 values are modelled as fixed-point integers with three    *)
(* decimals (FScale) and a reduced finite range [-FMax, FMax]; PosInf,     *)
(* NegInf and NaN are sentinels and the arithmetic follows IEEE-754 for    *)
(* them (overflow gives an infinity, NaN compares false with everything).  *)
(* u64 counters are modelled at a reduced width (U64Modulus).              *)
(* Indices are 0-based as in the source; sequences are 1-based, so the     *)
(* child at index i is children[i + 1].                                    *)
(***************************************************************************)
EXTENDS Integers, Sequences, FiniteSets, TLC

VARIABLES
    game,      \* the rules of the GameState implementation under search
    mcts,      \* the engine the caller owns (struct MCTS)
    derived,   \* the engine search_for_time builds and searches
    active,    \* "main" or "derived": the engine whose loop is running
    pc,        \* "idle" between calls, "loop" at an iteration boundary
    call,      \* the API call in progress and what it saw when it started
    budget,    \* iterations: the bound of `for i in 0..iterations`
    iter,      \* i: the number of loop passes completed
    elapsed,   \* start_time.elapsed() of the running loop
    ret,       \* the value the last completed call returned
    work,      \* number of iterations executed so far, over all calls
    last,      \* what the last executed iteration did
    sel,       \* input and output of a stand-alone select_child call
    unit       \* input and output of a call on a node or a pool alone

vars == <<game, mcts, derived, active, pc, call, budget, iter, elapsed, ret,
          work, last, sel, unit>>

----------------------------------------------------------------------------
(* Bounds of the model *)

MaxIterations == 2      \* largest iteration budget a call is given
MaxWork == 4            \* iterations per behaviour, over all calls
MaxStat == 2            \* largest visit count of a stand-alone select_child input
MaxUpdates == 3         \* update_stats calls on a stand-alone node
MaxThreads == 2         \* threads that update one node concurrently
MaxPolicies == 2        \* sub-policies of a mixture simulation policy

----------------------------------------------------------------------------
(* f64 *)

FScale == 1000
FMax == 2000000
PosInf == FMax + 1
NegInf == 0 - (FMax + 1)
NaN == FMax + 2

IsNaN(a) == a = NaN
IsInf(a) == a = PosInf \/ a = NegInf
Abs(a) == IF a < 0 THEN 0 - a ELSE a
Sign(a) == IF a < 0 THEN 0 - 1 ELSE 1
Overflow(a) == IF a > FMax THEN PosInf ELSE IF a < 0 - FMax THEN NegInf ELSE a

\* `n as f64`
FromInt(n) == Overflow(n * FScale)

\* a > b on f64: false when either side is NaN
FGt(a, b) == ~IsNaN(a) /\ ~IsNaN(b) /\ a > b

FAdd(a, b) ==
    IF IsNaN(a) \/ IsNaN(b) THEN NaN
    ELSE IF IsInf(a) /\ IsInf(b) THEN (IF a = b THEN a ELSE NaN)
    ELSE IF IsInf(a) THEN a
    ELSE IF IsInf(b) THEN b
    ELSE Overflow(a + b)

FNeg(a) == IF IsNaN(a) THEN NaN ELSE 0 - a

FSub(a, b) == FAdd(a, FNeg(b))

FMul(a, b) ==
    IF IsNaN(a) \/ IsNaN(b) THEN NaN
    ELSE IF IsInf(a) \/ IsInf(b)
         THEN (IF a = 0 \/ b = 0 THEN NaN ELSE Sign(a) * Sign(b) * PosInf)
    ELSE IF a = 0 \/ b = 0 THEN 0
    ELSE IF Abs(a) > (FMax * FScale) \div Abs(b) THEN Sign(a) * Sign(b) * PosInf
    ELSE Sign(a) * Sign(b) * ((Abs(a) * Abs(b)) \div FScale)

FDiv(a, b) ==
    IF IsNaN(a) \/ IsNaN(b) THEN NaN
    ELSE IF IsInf(a) /\ IsInf(b) THEN NaN
    ELSE IF IsInf(a) THEN Sign(a) * Sign(b) * PosInf
    ELSE IF IsInf(b) THEN 0
    ELSE IF b = 0 THEN (IF a = 0 THEN NaN ELSE Sign(a) * PosInf)
    ELSE IF Abs(a) > FMax THEN Sign(a) * Sign(b) * PosInf
    ELSE Sign(a) * Sign(b) * ((Abs(a) * FScale) \div Abs(b))

\* f64::min: the other operand when one is NaN
FMin(a, b) == IF IsNaN(a) THEN b ELSE IF IsNaN(b) THEN a ELSE IF a < b THEN a ELSE b

RECURSIVE ISqrt(_, _, _)
\* the largest r in lo..hi with r * r <= x (lo * lo <= x assumed)
ISqrt(x, lo, hi) ==
    IF lo >= hi THEN lo
    ELSE LET mid == (lo + hi + 1) \div 2
         IN IF mid * mid <= x THEN ISqrt(x, mid, hi) ELSE ISqrt(x, lo, mid - 1)

FSqrt(a) ==
    IF IsNaN(a) \/ a < 0 THEN NaN
    ELSE IF a = PosInf THEN PosInf
    ELSE ISqrt(a * FScale, 0, 46000)

\* ln(n) for n = 1..20, three decimals
LnTable == <<0, 693, 1099, 1386, 1609, 1792, 1946, 2079, 2197, 2303,
             2398, 2485, 2565, 2639, 2708, 2773, 2833, 2890, 2944, 2996>>

\* (n as f64).ln()
FLn(n) == IF n = 0 THEN NegInf ELSE LnTable[n]

----------------------------------------------------------------------------
(* Fixed-point counters (tree.rs) *)

U64Modulus == 1073741824
U64Max == U64Modulus - 1
REWARD_SCALE == 1000000

\* AtomicU64::fetch_add: wrapping addition
FetchAdd(a, b) == (a + b) % U64Modulus

Min(a, b) == IF a < b THEN a ELSE b

\* float_to_scaled_u64: ((value * REWARD_SCALE).max(0.0) as u64).min(u64::MAX / 2)
float_to_scaled_u64(value) ==
    IF IsNaN(value) \/ value <= 0 THEN 0
    ELSE IF value = PosInf \/ value > (U64Max \div 2) \div (REWARD_SCALE \div FScale)
         THEN U64Max \div 2
    ELSE Min(value * (REWARD_SCALE \div FScale), U64Max \div 2)

\* scaled_u64_to_float: value as f64 / REWARD_SCALE
scaled_u64_to_float(value) == value \div (REWARD_SCALE \div FScale)

----------------------------------------------------------------------------
(* GameState: a family of small games.  A state is the sequence of actions *)
(* played so far.  game.ply is the length at which play stops, game.width  *)
(* the number of actions offered; termActs makes states at the limit keep  *)
(* reporting legal actions although terminal, deadEnd makes them           *)
(* non-terminal although they offer no action.  The game of one action and *)
(* three plies lets a search descend two levels within a few iterations.   *)

None == 0      \* Option::None for actions and players

Games ==
    { [width |-> 2, ply |-> 2, termActs |-> FALSE, deadEnd |-> FALSE],
      [width |-> 3, ply |-> 1, termActs |-> FALSE, deadEnd |-> FALSE],
      [width |-> 2, ply |-> 0, termActs |-> FALSE, deadEnd |-> FALSE],
      [width |-> 2, ply |-> 0, termActs |-> TRUE,  deadEnd |-> FALSE],
      [width |-> 2, ply |-> 1, termActs |-> FALSE, deadEnd |-> TRUE],
      [width |-> 1, ply |-> 3, termActs |-> FALSE, deadEnd |-> FALSE] }

InitialState == <<>>

is_terminal(g, s) == Len(s) >= g.ply /\ ~g.deadEnd

get_legal_actions(g, s) ==
    IF Len(s) >= g.ply /\ ~g.termActs THEN <<>> ELSE [i \in 1..g.width |-> i]

apply_action(s, a) == Append(s, a)

get_current_player(s) == (Len(s) % 2) + 1

\* the results a simulation may return (f64, three decimals)
Rewards == {0, 1000}

----------------------------------------------------------------------------
(* MCTSNode (tree.rs) *)

\* MCTSNode::new
MCTSNode_new(g, state, action, parent_player, depth) ==
    [ state |-> state,
      action |-> action,
      visits |-> 0,
      total_reward |-> 0,
      sum_squared_reward |-> 0,
      rave_visits |-> 0,
      rave_reward |-> 0,
      prior |-> float_to_scaled_u64(1 * FScale),
      children |-> <<>>,
      unexpanded_actions |-> get_legal_actions(g, state),
      depth |-> depth,
      player |-> IF parent_player = None THEN get_current_player(state)
                 ELSE parent_player ]

total_reward(node) == scaled_u64_to_float(node.total_reward)
sum_squared_reward(node) == scaled_u64_to_float(node.sum_squared_reward)
prior(node) == scaled_u64_to_float(node.prior)

\* value without the early return for an unvisited node
value_unguarded(node) == FDiv(total_reward(node), FromInt(node.visits))

\* MCTSNode::value
value(node) ==
    IF node.visits = 0 THEN 0
    ELSE FDiv(total_reward(node), FromInt(node.visits))

increment_visits(node) == [node EXCEPT !.visits = FetchAdd(@, 1)]
add_reward(node, reward) ==
    [node EXCEPT !.total_reward = FetchAdd(@, float_to_scaled_u64(reward))]
add_squared_reward(node, reward) ==
    [node EXCEPT !.sum_squared_reward =
        FetchAdd(@, float_to_scaled_u64(FMul(reward, reward)))]

increment_rave_visits(node) == [node EXCEPT !.rave_visits = FetchAdd(@, 1)]
add_rave_reward(node, reward) ==
    [node EXCEPT !.rave_reward = FetchAdd(@, float_to_scaled_u64(reward))]

is_fully_expanded(node) == node.unexpanded_actions = <<>>

\* Vec::remove in place of swap_remove: the later elements shift down
swap_remove_shift(v, index) ==
    [i \in 1..(Len(v) - 1) |-> IF i >= index + 1 THEN v[i + 1] ELSE v[i]]

\* Vec::swap_remove(index), index 0-based and in range
swap_remove(v, index) ==
    LET n == Len(v)
    IN [i \in 1..(n - 1) |-> IF i = index + 1 THEN v[n] ELSE v[i]]

\* MCTSNode::expand; ok is FALSE for the None result
expand(g, node, action_index) ==
    IF action_index >= Len(node.unexpanded_actions)
    THEN [ok |-> FALSE, node |-> node]
    ELSE LET action == node.unexpanded_actions[action_index + 1]
             next_state == apply_action(node.state, action)
             current_player == get_current_player(node.state)
             child == MCTSNode_new(g, next_state, action, current_player,
                                   node.depth + 1)
         IN [ok |-> TRUE,
             node |-> [node EXCEPT
                 !.unexpanded_actions = swap_remove(@, action_index),
                 !.children = Append(@, child)]]

----------------------------------------------------------------------------
(* NodePool (tree.rs) *)

\* the placeholder node of NodePool::preallocate
Placeholder(template_state) ==
    [ state |-> template_state,
      action |-> None,
      visits |-> 0,
      total_reward |-> 0,
      sum_squared_reward |-> 0,
      rave_visits |-> 0,
      rave_reward |-> 0,
      prior |-> float_to_scaled_u64(1 * FScale),
      children |-> <<>>,
      unexpanded_actions |-> <<>>,
      depth |-> 0,
      player |-> get_current_player(template_state) ]

\* NodePool::new with preallocate(initial_size)
NodePool_new(template_state, initial_size) ==
    [ template_state |-> template_state,
      free_nodes |-> [i \in 1..initial_size |-> Placeholder(template_state)],
      total_created |-> initial_size,
      total_allocations |-> 0,
      total_recycled |-> 0 ]

available_nodes(pool) == Len(pool.free_nodes)

\* create_node that never looks at the free list
create_node_always_new(g, pool, state, action, parent_player, depth) ==
    [node |-> MCTSNode_new(g, state, action, parent_player, depth),
     pool |-> [pool EXCEPT !.total_allocations = @ + 1,
                           !.total_created = @ + 1]]

\* create_node that leaves the reused node's prior as it was
create_node_stale_prior(g, pool, state, action, parent_player, depth) ==
    IF pool.free_nodes # <<>>
    THEN [node |-> [MCTSNode_new(g, state, action, parent_player, depth)
                       EXCEPT !.prior =
                           pool.free_nodes[Len(pool.free_nodes)].prior],
          pool |-> [pool EXCEPT
                       !.total_allocations = @ + 1,
                       !.free_nodes = SubSeq(@, 1, Len(@) - 1)]]
    ELSE [node |-> MCTSNode_new(g, state, action, parent_player, depth),
          pool |-> [pool EXCEPT !.total_allocations = @ + 1,
                                !.total_created = @ + 1]]

\* create_node that leaves the reused node's depth as it was
create_node_stale_depth(g, pool, state, action, parent_player, depth) ==
    IF pool.free_nodes # <<>>
    THEN [node |-> [MCTSNode_new(g, state, action, parent_player, depth)
                       EXCEPT !.depth =
                           pool.free_nodes[Len(pool.free_nodes)].depth],
          pool |-> [pool EXCEPT
                       !.total_allocations = @ + 1,
                       !.free_nodes = SubSeq(@, 1, Len(@) - 1)]]
    ELSE [node |-> MCTSNode_new(g, state, action, parent_player, depth),
          pool |-> [pool EXCEPT !.total_allocations = @ + 1,
                                !.total_created = @ + 1]]

\* NodePool::create_node: the node handed out and the pool afterwards
create_node(g, pool, state, action, parent_player, depth) ==
    LET p1 == [pool EXCEPT !.total_allocations = @ + 1]
    IN IF p1.free_nodes # <<>>
       THEN LET n == Len(p1.free_nodes)
                node == p1.free_nodes[n]
            IN [node |-> [node EXCEPT
                    !.state = state,
                    !.action = action,
                    !.visits = 0,
                    !.total_reward = 0,
                    !.sum_squared_reward = 0,
                    !.rave_visits = 0,
                    !.rave_reward = 0,
                    !.prior = float_to_scaled_u64(1 * FScale),
                    !.children = <<>>,
                    !.depth = depth,
                    !.player = IF parent_player = None
                               THEN get_current_player(state)
                               ELSE parent_player,
                    !.unexpanded_actions = get_legal_actions(g, state)],
                pool |-> [p1 EXCEPT !.free_nodes = SubSeq(@, 1, n - 1)]]
       ELSE [node |-> MCTSNode_new(g, state, action, parent_player, depth),
             pool |-> [p1 EXCEPT !.total_created = @ + 1]]

\* recycle_node that pushes the node with its lists as they are
recycle_node_keeps_lists(pool, node) ==
    [pool EXCEPT !.total_recycled = @ + 1, !.free_nodes = Append(@, node)]

\* NodePool::recycle_node
recycle_node(pool, node) ==
    [pool EXCEPT
        !.total_recycled = @ + 1,
        !.free_nodes = Append(@, [node EXCEPT !.children = <<>>,
                                              !.unexpanded_actions = <<>>])]

RECURSIVE recycle_subtree_recursive(_, _)
RECURSIVE RecycleChildren(_, _)
\* recycling that pushes the node before its descendants
recycle_subtree_recursive_node_first(node, pool) ==
    RecycleChildren(node.children,
                    recycle_node(pool, [node EXCEPT !.children = <<>>]))

\* `for child in children.drain(..) { recycle_subtree_recursive(child, pool) }`
RecycleChildren(children, pool) ==
    IF children = <<>> THEN pool
    ELSE RecycleChildren(Tail(children),
                         recycle_subtree_recursive(Head(children), pool))

\* recycle_subtree_recursive (mcts.rs): the descendants, then the node
recycle_subtree_recursive(node, pool) ==
    recycle_node(RecycleChildren(node.children, pool),
                 [node EXCEPT !.children = <<>>])

RECURSIVE NodePool_recycle_tree(_, _)
RECURSIVE RecycleTreeChildren(_, _)
\* `for child in children.drain(..) { self.recycle_tree(child) }`
RecycleTreeChildren(pool, children) ==
    IF children = <<>> THEN pool
    ELSE RecycleTreeChildren(NodePool_recycle_tree(pool, Head(children)),
                             Tail(children))

\* NodePool::recycle_tree: the children taken out of the root and recycled,
\* then the root
NodePool_recycle_tree(pool, root) ==
    recycle_node(RecycleTreeChildren(pool, root.children),
                 [root EXCEPT !.children = <<>>])

\* MCTSNode::expand_with_pool
\* the node taken from the pool before the index is checked
expand_with_pool_allocates_first(g, node, action_index, pool) ==
    [ok |-> FALSE, node |-> node,
     pool |-> create_node(g, pool, node.state, None, None, node.depth + 1).pool]

\* expand_with_pool that puts the new child in front of its siblings
expand_with_pool_prepends(g, node, action_index, pool) ==
    IF action_index >= Len(node.unexpanded_actions)
    THEN [ok |-> FALSE, node |-> node, pool |-> pool]
    ELSE [ok |-> TRUE,
          node |-> [node EXCEPT
              !.unexpanded_actions = swap_remove(@, action_index),
              !.children =
                  <<create_node(g, pool,
                       apply_action(node.state,
                                    node.unexpanded_actions[action_index + 1]),
                       node.unexpanded_actions[action_index + 1],
                       get_current_player(node.state), node.depth + 1).node>>
                  \o @],
          pool |-> create_node(g, pool,
                       apply_action(node.state,
                                    node.unexpanded_actions[action_index + 1]),
                       node.unexpanded_actions[action_index + 1],
                       get_current_player(node.state), node.depth + 1).pool]

expand_with_pool(g, node, action_index, pool) ==
    IF action_index >= Len(node.unexpanded_actions)
    THEN [ok |-> FALSE, node |-> node, pool |-> pool]
    ELSE LET action == node.unexpanded_actions[action_index + 1]
             next_state == apply_action(node.state, action)
             current_player == get_current_player(node.state)
             made == create_node(g, pool, next_state, action, current_player,
                                 node.depth + 1)
         IN [ok |-> TRUE,
             node |-> [node EXCEPT
                 !.unexpanded_actions = swap_remove(@, action_index),
                 !.children = Append(@, made.node)],
             pool |-> made.pool]

----------------------------------------------------------------------------
(* Selection policies (policy/selection.rs).  A policy is a record         *)
(* [kind, exploration_constant].                                           *)

\* UCB1Policy::ucb1_value
ucb1_value(c, child_value, child_visits, parent_visits) ==
    IF child_visits = 0 THEN PosInf
    ELSE LET exploitation == child_value
             exploration ==
                 FMul(c, FSqrt(FDiv(FLn(parent_visits), FromInt(child_visits))))
         IN FAdd(exploitation, exploration)

\* the score UCB1TunedPolicy::select_child gives a visited child
ucb1_tuned_value(c, child, parent_visits) ==
    LET child_value == value(child)
        child_visits == child.visits
        avg_reward == child_value
        sum_squared == sum_squared_reward(child)
        variance == FSub(FDiv(sum_squared, FromInt(child_visits)),
                         FMul(avg_reward, avg_reward))
        exploration_term ==
            FSqrt(FDiv(FLn(parent_visits), FromInt(child_visits)))
        upper_bound_variance == FAdd(variance, exploration_term)
        min_variance == FMin(250, upper_bound_variance)
        exploration == FMul(FMul(c, exploration_term), min_variance)
    IN FAdd(child_value, exploration)

\* the score PUCTPolicy::select_child gives a visited child
puct_value(c, child, parent_visits) ==
    LET exploitation == value(child)
        exploration ==
            FDiv(FMul(FMul(c, prior(child)), FSqrt(FromInt(parent_visits))),
                 FAdd(1 * FScale, FromInt(child.visits)))
    IN FAdd(exploitation, exploration)

RECURSIVE UCB1Loop(_, _, _, _, _)
\* the UCB1 loop with >= for >: a later child with an equal score wins
UCB1Loop_ge(c, node, i, best_value, best_index) ==
    IF i >= Len(node.children) THEN best_index
    ELSE IF ~FGt(best_value,
                 ucb1_value(c, value(node.children[i + 1]),
                            node.children[i + 1].visits, node.visits))
         THEN UCB1Loop(c, node, i + 1,
                       ucb1_value(c, value(node.children[i + 1]),
                                  node.children[i + 1].visits, node.visits), i)
         ELSE UCB1Loop(c, node, i + 1, best_value, best_index)

\* the loop of UCB1Policy::select_child from child index i on
UCB1Loop(c, node, i, best_value, best_index) ==
    IF i >= Len(node.children) THEN best_index
    ELSE LET child == node.children[i + 1]
             ucb_value == ucb1_value(c, value(child), child.visits, node.visits)
         IN IF FGt(ucb_value, best_value)
            THEN UCB1Loop(c, node, i + 1, ucb_value, i)
            ELSE UCB1Loop(c, node, i + 1, best_value, best_index)

RECURSIVE UCB1TunedLoop(_, _, _, _, _)
\* the loop of UCB1TunedPolicy::select_child from child index i on
UCB1TunedLoop(c, node, i, best_value, best_index) ==
    IF i >= Len(node.children) THEN best_index
    ELSE LET child == node.children[i + 1]
         IN IF child.visits = 0 THEN i
            ELSE LET ucb_value == ucb1_tuned_value(c, child, node.visits)
                 IN IF FGt(ucb_value, best_value)
                    THEN UCB1TunedLoop(c, node, i + 1, ucb_value, i)
                    ELSE UCB1TunedLoop(c, node, i + 1, best_value, best_index)

RECURSIVE PUCTLoop(_, _, _, _, _)
\* the loop of PUCTPolicy::select_child from child index i on
PUCTLoop(c, node, i, best_value, best_index) ==
    IF i >= Len(node.children) THEN best_index
    ELSE LET child == node.children[i + 1]
         IN IF child.visits = 0 THEN i
            ELSE LET v == puct_value(c, child, node.visits)
                 IN IF FGt(v, best_value)
                    THEN PUCTLoop(c, node, i + 1, v, i)
                    ELSE PUCTLoop(c, node, i + 1, best_value, best_index)

UCB1Policy_select_child(c, node) ==
    IF node.children = <<>> THEN 0 ELSE UCB1Loop(c, node, 0, NegInf, 0)

UCB1TunedPolicy_select_child(c, node) ==
    IF node.children = <<>> THEN 0 ELSE UCB1TunedLoop(c, node, 0, NegInf, 0)

PUCTPolicy_select_child(c, node) ==
    IF node.children = <<>> THEN 0 ELSE PUCTLoop(c, node, 0, NegInf, 0)

\* dyn SelectionPolicy::select_child
select_child(policy, node) ==
    CASE policy.kind = "UCB1" ->
            UCB1Policy_select_child(policy.exploration_constant, node)
      [] policy.kind = "UCB1Tuned" ->
            UCB1TunedPolicy_select_child(policy.exploration_constant, node)
      [] policy.kind = "PUCT" ->
            PUCTPolicy_select_child(policy.exploration_constant, node)

----------------------------------------------------------------------------
(* Expansion policy (policy/expansion.rs) *)

\* RandomExpansionPolicy::select_action_to_expand, `index` being the index
\* the rng draws: Option<(usize, f64)>
RandomExpansionPolicy_select_action_to_expand(node, index) ==
    IF node.unexpanded_actions = <<>>
    THEN [some |-> FALSE, index |-> 0, prior |-> 0]
    ELSE LET total_actions ==
                 Len(node.children) + Len(node.unexpanded_actions)
         IN [some |-> TRUE,
             index |-> index,
             prior |-> IF total_actions > 0
                       THEN FDiv(FScale, FromInt(total_actions))
                       ELSE FScale]

----------------------------------------------------------------------------
(* Backpropagation policy (policy/backpropagation.rs) *)

\* the standard update without the squared reward
StandardPolicy_update_stats_no_square(node, result) ==
    add_reward(increment_visits(node), result)

\* StandardPolicy::update_stats
StandardPolicy_update_stats(node, result) ==
    add_squared_reward(add_reward(increment_visits(node), result), result)

\* WeightedPolicy::update_stats: weight = 1.0 / (1.0 + depth_factor * depth)
WeightedPolicy_weight(depth_factor, node) ==
    FDiv(FScale, FAdd(FScale, FMul(depth_factor, FromInt(node.depth))))

Weighted(node, weighted_result) ==
    add_squared_reward(add_reward(increment_visits(node), weighted_result),
                       weighted_result)

WeightedPolicy_update_stats(depth_factor, node, result) ==
    Weighted(node, FMul(result, WeightedPolicy_weight(depth_factor, node)))

\* Option<&[S::Action]>: a trace is [some, actions]; an action is its id
NoTrace == [some |-> FALSE, actions |-> <<>>]
SomeTrace(actions) == [some |-> TRUE, actions |-> actions]

\* the RAVE update applied whenever a trace and an inbound action exist
action_in_trace_any(trace, node) == trace.some /\ node.action # None

\* `if let (Some(trace), Some(node_action))` and `trace.iter().any(..)`
action_in_trace(trace, node) ==
    /\ trace.some
    /\ node.action # None
    /\ \E i \in 1..Len(trace.actions) : trace.actions[i] = node.action

\* RavePolicy::update_stats
RavePolicy_update_stats(node, result, trace) ==
    IF action_in_trace(trace, node)
    THEN add_rave_reward(
             increment_rave_visits(StandardPolicy_update_stats(node, result)),
             result)
    ELSE StandardPolicy_update_stats(node, result)

\* BackpropagationPolicy::update_stats on a boxed policy
\* [kind, depth_factor]
update_stats(policy, node, result, trace) ==
    IF policy.kind = "Standard" THEN StandardPolicy_update_stats(node, result)
    ELSE IF policy.kind = "Weighted"
         THEN WeightedPolicy_update_stats(policy.depth_factor, node, result)
    ELSE RavePolicy_update_stats(node, result, trace)

----------------------------------------------------------------------------
(* Simulation policies (policy/simulation.rs).  The state handed to        *)
(* simulate is the record of what a policy can read from it: is_terminal,  *)
(* get_result for its current player, and the result its random playout   *)
(* ends with.  A policy is [kind, heuristic, policies]: heuristic is the   *)
(* value the heuristic function gives for the state, policies the list of  *)
(* (policy, probability) pairs of a mixture.  A simulation gives           *)
(* [panicked, value, used, index]: used names the function that produced   *)
(* the value and index the sub-policy of a mixture that was called.        *)

NoIndex == 0 - 1

Simulated(result, used) ==
    [panicked |-> FALSE, value |-> result, used |-> used, index |-> NoIndex]

\* a panic unwinds out of simulate
Panicked == [panicked |-> TRUE, value |-> 0, used |-> "none", index |-> NoIndex]

\* GameState::simulate_random_playout: no move is played from a terminal state
simulate_random_playout(state) ==
    IF state.terminal THEN state.result ELSE state.playout

\* RandomPolicy::simulate
RandomPolicy_simulate(state) ==
    Simulated(simulate_random_playout(state), "simulate_random_playout")

\* the heuristic function called whatever the state is
HeuristicPolicy_simulate_always(heuristic, state) ==
    Simulated(heuristic, "heuristic")

\* HeuristicPolicy::simulate
HeuristicPolicy_simulate(heuristic, state) ==
    IF state.terminal THEN Simulated(state.result, "get_result")
    ELSE Simulated(heuristic, "heuristic")

\* simulate of a boxed policy that is not a mixture
Box_simulate(policy, state) ==
    IF policy.kind = "Random" THEN RandomPolicy_simulate(state)
    ELSE HeuristicPolicy_simulate(policy.heuristic, state)

RECURSIVE TotalFrom(_, _, _)
\* `self.policies.iter().map(|(_, p)| *p).sum()`
TotalFrom(policies, i, acc) ==
    IF i > Len(policies) THEN acc
    ELSE TotalFrom(policies, i + 1, FAdd(acc, policies[i].prob))

Total(policies) == TotalFrom(policies, 1, 0)

\* the values `rng.gen_range(0.0..total)` can return; none when the range
\* is empty or not finite, and gen_range panics
GenRange(total) ==
    IF IsNaN(total) \/ IsInf(total) \/ total <= 0 THEN {}
    ELSE { r \in {0, total \div 4, total \div 2, total - 1} : r >= 0 /\ r < total }

\* the sub-policy chosen by the weighted draw
Chosen(policies, state, i) ==
    [Box_simulate(policies[i].policy, state) EXCEPT !.index = i - 1]

RECURSIVE MixtureLoop(_, _, _, _, _)
\* the loop over `&self.policies` and the statement after it
MixtureLoop(policies, state, r, i, cumulative) ==
    IF i > Len(policies)
    THEN Chosen(policies, state, Len(policies))
    ELSE IF FGt(FAdd(cumulative, policies[i].prob), r)
         THEN Chosen(policies, state, i)
    ELSE MixtureLoop(policies, state, r, i + 1,
                     FAdd(cumulative, policies[i].prob))

\* MixturePolicy::simulate: the set of its outcomes over the draws of the rng
MixturePolicy_simulate(policies, state) ==
    IF policies = <<>> THEN {RandomPolicy_simulate(state)}
    ELSE IF GenRange(Total(policies)) = {} THEN {Panicked}
    ELSE { MixtureLoop(policies, state, r, 1, 0) :
               r \in GenRange(Total(policies)) }

\* SimulationPolicy::simulate
simulate(policy, state) ==
    IF policy.kind = "Mixture"
    THEN MixturePolicy_simulate(policy.policies, state)
    ELSE {Box_simulate(policy, state)}

----------------------------------------------------------------------------
(* SearchStatistics (stats.rs) and MCTSConfig (config.rs) *)

NoTime == 0 - 1     \* max_time: None
NoDepth == 0 - 1    \* max_depth: None

NoPoolStats == [capacity |-> 0, available |-> 0, total_allocated |-> 0,
                total_returned |-> 0]

\* SearchStatistics::new
SearchStatistics_new ==
    [ iterations |-> 0,
      total_time |-> 0,
      tree_size |-> 1,
      max_depth |-> 0,
      stopped_early |-> FALSE,
      has_pool_stats |-> FALSE,
      node_pool_stats |-> NoPoolStats ]

\* SearchStatistics::update_node_pool_stats from the pool's counters
update_node_pool_stats(statistics, pool) ==
    [statistics EXCEPT
        !.has_pool_stats = TRUE,
        !.node_pool_stats = [capacity |-> pool.total_created,
                             available |-> available_nodes(pool),
                             total_allocated |-> pool.total_allocations,
                             total_returned |-> pool.total_recycled]]

----------------------------------------------------------------------------
(* MCTS (mcts.rs).  node_pool: Option<NodePool> is the pair has_pool,      *)
(* node_pool; the pool of an engine without one is never read.             *)

NoPool == NodePool_new(InitialState, 0)

\* MCTS::new followed by with_selection_policy
MCTS_new(g, initial_state, config, policy) ==
    [ root |-> MCTSNode_new(g, initial_state, None, None, 0),
      config |-> config,
      statistics |-> SearchStatistics_new,
      selection_policy |-> policy,
      has_pool |-> FALSE,
      node_pool |-> NoPool ]

\* MCTS::with_node_pool
MCTS_with_node_pool(g, initial_state, config, policy, initial_pool_size) ==
    [MCTS_new(g, initial_state, config, policy) EXCEPT
        !.has_pool = TRUE,
        !.node_pool = NodePool_new(initial_state, initial_pool_size)]

\* recycle_tree without the regeneration of the root's unexpanded actions
recycle_tree_no_regenerate(g, m) ==
    IF m.has_pool
    THEN LET pool == RecycleChildren(m.root.children, m.node_pool)
         IN [m EXCEPT !.root = [m.root EXCEPT !.children = <<>>],
                      !.node_pool = pool,
                      !.statistics = update_node_pool_stats(@, pool)]
    ELSE m

\* MCTS::recycle_tree
recycle_tree(g, m) ==
    IF m.has_pool
    THEN LET pool == RecycleChildren(m.root.children, m.node_pool)
             root1 == [m.root EXCEPT !.children = <<>>]
             root2 == IF root1.unexpanded_actions = <<>>
                      THEN [root1 EXCEPT !.unexpanded_actions =
                                get_legal_actions(g, root1.state)]
                      ELSE root1
         IN [m EXCEPT !.root = root2,
                      !.node_pool = pool,
                      !.statistics = update_node_pool_stats(@, pool)]
    ELSE m

RECURSIVE NodeAt(_, _)
\* `for &index in &path.indices { node = &mut node.children[index]; }`
NodeAt(node, path) ==
    IF path = <<>> THEN node ELSE NodeAt(node.children[Head(path) + 1], Tail(path))

RECURSIVE ReplaceAt(_, _, _)
\* the tree with the node at path replaced (a write through `node: &mut`)
ReplaceAt(node, path, new) ==
    IF path = <<>> THEN new
    ELSE [node EXCEPT !.children[Head(path) + 1] = ReplaceAt(@, Tail(path), new)]

Max(a, b) == IF a > b THEN a ELSE b

RECURSIVE SelectionLoop(_, _, _, _, _, _)
RECURSIVE SelectionStep(_, _, _, _, _, _, _)
\* the while loop entered at every non-terminal node that has children
SelectionLoop_greedy(g, policy, current, path, depth, max_depth) ==
    IF ~is_terminal(g, current.state) /\ current.children # <<>>
    THEN SelectionStep(g, policy, current, path, depth, max_depth,
                       select_child(policy, current))
    ELSE [path |-> path, max_depth |-> max_depth]

\* the while loop of MCTS::selection; yields the path and statistics.max_depth
SelectionLoop(g, policy, current, path, depth, max_depth) ==
    IF ~is_terminal(g, current.state) /\ is_fully_expanded(current)
       /\ current.children # <<>>
    THEN SelectionStep(g, policy, current, path, depth, max_depth,
                       select_child(policy, current))
    ELSE [path |-> path, max_depth |-> max_depth]

\* the body of the while loop, best_child_idx being the policy's choice
SelectionStep(g, policy, current, path, depth, max_depth, best_child_idx) ==
    LET next == current.children[best_child_idx + 1]
    IN IF is_terminal(g, next.state) \/ ~is_fully_expanded(next)
       THEN [path |-> Append(path, best_child_idx),
             max_depth |-> Max(max_depth, depth + 1)]
       ELSE SelectionLoop(g, policy, next, Append(path, best_child_idx),
                          depth + 1, Max(max_depth, depth + 1))

\* MCTS::selection
selection(g, m) ==
    SelectionLoop(g, m.selection_policy, m.root, <<>>, 0, m.statistics.max_depth)

\* no child is made and the root's state is handed on
NotExpanded_root_state(m, path, node) ==
    [m |-> m, expanded_path |-> path, state |-> m.root.state,
     expanded |-> FALSE]

\* expansion when no child is made: the path and the node's state
NotExpanded(m, path, node) ==
    [m |-> m, expanded_path |-> path, state |-> node.state, expanded |-> FALSE]

\* the tail of MCTS::expansion, r being the result of expand or
\* expand_with_pool on the node at path
AfterExpand(m, path, node, r) ==
    IF r.ok
    THEN [m |-> [m EXCEPT
                    !.root = ReplaceAt(m.root, path, r.node),
                    !.node_pool = r.pool,
                    !.statistics =
                        IF m.has_pool
                        THEN update_node_pool_stats(
                                 [@ EXCEPT !.tree_size = @ + 1], r.pool)
                        ELSE [@ EXCEPT !.tree_size = @ + 1]],
          expanded_path |-> Append(path, Len(r.node.children) - 1),
          state |-> r.node.children[Len(r.node.children)].state,
          expanded |-> TRUE]
    ELSE NotExpanded(m, path, node)

\* the result of MCTSNode::expand with the engine's (absent) pool
WithoutPool(r, pool) == [ok |-> r.ok, node |-> r.node, pool |-> pool]

\* expansion without the check for a terminal node
ExpandNode_terminal_too(g, m, path, node, action_index) ==
    IF node.unexpanded_actions # <<>>
    THEN AfterExpand(m, path, node,
             IF m.has_pool
             THEN expand_with_pool(g, node, action_index, m.node_pool)
             ELSE WithoutPool(expand(g, node, action_index), m.node_pool))
    ELSE NotExpanded(m, path, node)

\* MCTS::expansion once the node at path is reached
ExpandNode(g, m, path, node, action_index) ==
    IF is_terminal(g, node.state) THEN NotExpanded(m, path, node)
    ELSE IF node.unexpanded_actions # <<>>
    THEN AfterExpand(m, path, node,
             IF m.has_pool
             THEN expand_with_pool(g, node, action_index, m.node_pool)
             ELSE WithoutPool(expand(g, node, action_index), m.node_pool))
    ELSE NotExpanded(m, path, node)

\* MCTS::expansion with action_index the index the rng draws; yields the
\* engine afterwards, the expanded path and the state to simulate
expansion(g, m, path, action_index) ==
    ExpandNode(g, m, path, NodeAt(m.root, path), action_index)

RECURSIVE BackpropagateFrom(_, _, _)
\* backpropagation that also updates the siblings of the nodes of the path
BackpropagateFrom_siblings(node, path, result) ==
    LET n1 == StandardPolicy_update_stats(node, result)
    IN IF path = <<>> THEN n1
       ELSE [n1 EXCEPT !.children =
                [i \in 1..Len(n1.children) |->
                    IF i = Head(path) + 1
                    THEN BackpropagateFrom(n1.children[i], Tail(path), result)
                    ELSE StandardPolicy_update_stats(n1.children[i], result)]]

\* backpropagation that hands each level the result seen from the other
\* player: 1.0 - result one level down, result again below that
BackpropagateFrom_negamax(node, path, result) ==
    LET n1 == StandardPolicy_update_stats(node, result)
    IN IF path = <<>> THEN n1
       ELSE [n1 EXCEPT !.children[Head(path) + 1] =
                BackpropagateFrom(@, Tail(path), FSub(1 * FScale, result))]

\* update_stats on node, then on each node along path below it
BackpropagateFrom(node, path, result) ==
    LET n1 == StandardPolicy_update_stats(node, result)
    IN IF path = <<>> THEN n1
       ELSE [n1 EXCEPT !.children[Head(path) + 1] =
                BackpropagateFrom(@, Tail(path), result)]

\* an iteration that ends before its backpropagation
backpropagation_none(m, path, result) == m

\* backpropagation that leaves the root out and updates the nodes below it
backpropagation_below_root(m, path, result) ==
    [m EXCEPT !.root =
        [BackpropagateFrom(@, path, result) EXCEPT
            !.visits = m.root.visits,
            !.total_reward = m.root.total_reward,
            !.sum_squared_reward = m.root.sum_squared_reward]]

\* MCTS::backpropagation
backpropagation(m, path, result) ==
    [m EXCEPT !.root = BackpropagateFrom(@, path, result)]

\* phases 3 and 4 of execute_iteration, e being the expansion's outcome
AfterExpansion(selected_path, e, result) ==
    [m |-> backpropagation(e.m, selected_path, result),
     selected_path |-> selected_path,
     expanded_path |-> e.expanded_path,
     expanded |-> e.expanded,
     state |-> e.state]

\* phases 2 to 4 of execute_iteration, s being the selection's outcome
AfterSelection(g, m, s, action_index, result) ==
    AfterExpansion(s.path,
        expansion(g, [m EXCEPT !.statistics.max_depth = s.max_depth],
                  s.path, action_index),
        result)

\* MCTS::execute_iteration with the rng's draw and the simulation's result
execute_iteration(g, m, action_index, result) ==
    AfterSelection(g, m, selection(g, m), action_index, result)

RECURSIVE MostVisitsLoop_ge(_, _, _, _)
\* the MostVisits loop with >= for >: a later child with equal visits wins
MostVisitsLoop_ge(children, i, best_visits, best_index) ==
    IF i >= Len(children) THEN best_index
    ELSE IF children[i + 1].visits >= best_visits
         THEN MostVisitsLoop_ge(children, i + 1, children[i + 1].visits, i)
         ELSE MostVisitsLoop_ge(children, i + 1, best_visits, best_index)

RECURSIVE MostVisitsLoop(_, _, _, _)
\* the MostVisits loop of select_best_action from child index i on
MostVisitsLoop(children, i, best_visits, best_index) ==
    IF i >= Len(children) THEN best_index
    ELSE IF children[i + 1].visits > best_visits
         THEN MostVisitsLoop(children, i + 1, children[i + 1].visits, i)
         ELSE MostVisitsLoop(children, i + 1, best_visits, best_index)

RECURSIVE HighestValueLoop(_, _, _, _)
\* the HighestValue loop of select_best_action from child index i on
HighestValueLoop(children, i, best_value, best_index) ==
    IF i >= Len(children) THEN best_index
    ELSE IF FGt(value(children[i + 1]), best_value)
         THEN HighestValueLoop(children, i + 1, value(children[i + 1]), i)
         ELSE HighestValueLoop(children, i + 1, best_value, best_index)

Err == [ok |-> FALSE, action |-> None]       \* Err(NoLegalActions)
Ok(a) == [ok |-> TRUE, action |-> a]

\* Option<Action>::ok_or(NoLegalActions)
ok_or(action) == IF action = None THEN Err ELSE Ok(action)

\* select_best_action without the first-play fallback to an unexpanded action
select_best_action_no_fallback(m) ==
    IF m.root.children = <<>> THEN Err
    ELSE IF m.config.best_child_criteria = "MostVisits"
         THEN ok_or(m.root.children[
                  MostVisitsLoop(m.root.children, 0, 0, 0) + 1].action)
         ELSE ok_or(m.root.children[
                  HighestValueLoop(m.root.children, 0, NegInf, 0) + 1].action)

\* MCTS::select_best_action
select_best_action(m) ==
    IF m.root.children = <<>>
    THEN IF m.root.unexpanded_actions = <<>> THEN Err
         ELSE Ok(m.root.unexpanded_actions[1])
    ELSE IF m.config.best_child_criteria = "MostVisits"
         THEN ok_or(m.root.children[
                  MostVisitsLoop(m.root.children, 0, 0, 0) + 1].action)
         ELSE ok_or(m.root.children[
                  HighestValueLoop(m.root.children, 0, NegInf, 0) + 1].action)

----------------------------------------------------------------------------
(* The engine as a state machine.  A call of search, search_for_iterations *)
(* or search_for_time runs up to the `for` loop of search_for_iterations;  *)
(* each pass of the loop is one step, and the step that leaves the loop    *)
(* runs the rest of the call and returns.                                  *)

\* MCTSConfig::default, with the iteration budget of the model
DefaultConfig ==
    [ exploration_constant |-> 1414,
      max_iterations |-> MaxIterations,
      max_time |-> NoTime,
      max_depth |-> NoDepth,
      best_child_criteria |-> "MostVisits",
      node_pool_size |-> 0 ]

\* How the engine under test is built: the configuration, the selection
\* policy given to with_selection_policy and the constructor.  The default
\* engine with each selection policy, and the UCB1 engine with each builder
\* option changed: the best-child criterion, a time limit, a node pool (made
\* by the constructor or lazily by search), a node pool with a time limit,
\* a depth limit of 1, and the largest finite exploration constant.
Setups ==
    { [config |-> DefaultConfig, kind |-> k, ctor |-> "new"] :
        k \in {"UCB1", "UCB1Tuned", "PUCT"} }
    \cup
    { [config |-> [DefaultConfig EXCEPT !.best_child_criteria = "HighestValue"],
       kind |-> "UCB1", ctor |-> "new"],
      [config |-> [DefaultConfig EXCEPT !.max_time = 1],
       kind |-> "UCB1", ctor |-> "new"],
      [config |-> [DefaultConfig EXCEPT !.max_depth = 1],
       kind |-> "UCB1", ctor |-> "new"],
      [config |-> [DefaultConfig EXCEPT !.exploration_constant = FMax],
       kind |-> "UCB1", ctor |-> "new"] }
    \cup
    { [config |-> [DefaultConfig EXCEPT !.node_pool_size = 1],
       kind |-> "UCB1", ctor |-> c] : c \in {"new", "with_node_pool"} }
    \cup
    { [config |-> [DefaultConfig EXCEPT !.node_pool_size = 1, !.max_time = 1],
       kind |-> "UCB1", ctor |-> "with_node_pool"] }

NoCall == [kind |-> "none", n |-> 0, empty0 |-> FALSE, visits0 |-> 0]
NoRet == [valid |-> FALSE, ok |-> FALSE, action |-> None, via |-> "none"]
NoLast == [valid |-> FALSE, engine |-> "main", pre |-> <<>>, path |-> <<>>,
           expanded_path |-> <<>>, expanded |-> FALSE, result |-> 0,
           state |-> <<>>]
\* no call on a node or a pool alone is under way
NoUnit == [op |-> "none"]

NoSel == [policy |-> [kind |-> "UCB1", exploration_constant |-> 0],
          node |-> MCTSNode_new([width |-> 0, ply |-> 0, termActs |-> FALSE,
                                 deadEnd |-> FALSE], <<>>, None, None, 0),
          out |-> 0, done |-> FALSE]

\* the value of `derived` while no search_for_time call is running (the
\* engine it builds is a local of the call and is dropped on return)
Dropped ==
    MCTS_new([width |-> 0, ply |-> 0, termActs |-> FALSE, deadEnd |-> FALSE],
             InitialState,
             [exploration_constant |-> 0, max_iterations |-> 0,
              max_time |-> NoTime, max_depth |-> NoDepth,
              best_child_criteria |-> "MostVisits", node_pool_size |-> 0],
             [kind |-> "UCB1", exploration_constant |-> 0])

Init ==
    /\ game \in Games
    /\ \E setup \in Setups :
          LET policy == [kind |-> setup.kind,
                         exploration_constant |->
                             setup.config.exploration_constant]
          IN mcts = IF setup.ctor = "new"
                    THEN MCTS_new(game, InitialState, setup.config, policy)
                    ELSE MCTS_with_node_pool(game, InitialState, setup.config,
                             policy, setup.config.node_pool_size)
    /\ derived = Dropped
    /\ active = "main"
    /\ pc = "idle"
    /\ call = NoCall
    /\ budget = 0
    /\ iter = 0
    /\ elapsed = 0
    /\ ret = NoRet
    /\ work = 0
    /\ last = NoLast
    /\ sel = NoSel
    /\ unit = NoUnit

\* the engine whose loop is running
Engine == IF active = "main" THEN mcts ELSE derived

\* the check for a root without actions left out
RootEmpty_never(m) == FALSE

\* `self.root.unexpanded_actions.is_empty() && self.root.children.is_empty()`
RootEmpty(m) == m.root.unexpanded_actions = <<>> /\ m.root.children = <<>>

\* the iteration count one short
IterationsAfter_index(i) == i

\* `self.statistics.iterations = i + 1`
IterationsAfter(i) == i + 1

\* what a call saw when it started: did the root have neither an unexpanded
\* action nor a child, and the root's visit count
CallRecord(kind, n) ==
    [kind |-> kind, n |-> n,
     empty0 |-> Len(mcts.root.unexpanded_actions) + Len(mcts.root.children) = 0,
     visits0 |-> mcts.root.visits]

\* the head of MCTS::search: the lazy pool, then recycle_tree
SearchPrologue(g, m) ==
    LET m1 == IF ~m.has_pool /\ m.config.node_pool_size > 0
              THEN [m EXCEPT !.has_pool = TRUE,
                             !.node_pool = NodePool_new(m.root.state,
                                               m.config.node_pool_size)]
              ELSE m
    IN recycle_tree(g, m1)

\* the head of search_for_iterations: `self.statistics = SearchStatistics::new()`
ResetStatistics(m) == [m EXCEPT !.statistics = SearchStatistics_new]

\* the tail of search_for_iterations, after the loop
Epilogue(m) ==
    LET st1 == [m.statistics EXCEPT !.total_time = elapsed]
    IN [m EXCEPT !.statistics =
            IF m.has_pool THEN update_node_pool_stats(st1, m.node_pool) ELSE st1]

\* the engine search_for_time builds: MCTS::new or with_node_pool on a clone
\* of the root state, with max_time = Some(duration) and the caller's policies
DerivedEngine(g, m, duration) ==
    LET config == [m.config EXCEPT !.max_time = duration]
    IN IF config.node_pool_size > 0
       THEN MCTS_with_node_pool(g, m.root.state, config, m.selection_policy,
                                config.node_pool_size)
       ELSE MCTS_new(g, m.root.state, config, m.selection_policy)

\* enter the loop of search_for_iterations(n) on engine `which`, already
\* reset, or return Err(NoLegalActions) at once
EnterLoop(which, m, n) ==
    /\ IF RootEmpty(m)
       THEN /\ pc' = "idle"
            /\ ret' = [valid |-> TRUE, ok |-> FALSE, action |-> None,
                       via |-> "none"]
            /\ active' = "main"
       ELSE /\ pc' = "loop"
            /\ ret' = NoRet
            /\ active' = which
    /\ budget' = n
    /\ iter' = 0
    /\ elapsed' = 0

\* MCTS::search
Search ==
    /\ pc = "idle"
    /\ work + mcts.config.max_iterations <= MaxWork
    /\ LET m == ResetStatistics(SearchPrologue(game, mcts))
       IN /\ mcts' = m
          /\ EnterLoop("main", m, m.config.max_iterations)
    /\ call' = CallRecord("search", mcts.config.max_iterations)
    /\ last' = NoLast
    /\ UNCHANGED <<game, derived, work, sel, unit>>

\* MCTS::search_for_iterations(n)
SearchForIterations ==
    /\ pc = "idle"
    /\ \E n \in 0..Min(MaxIterations, MaxWork - work) :
          /\ mcts' = ResetStatistics(mcts)
          /\ EnterLoop("main", mcts, n)
          /\ call' = CallRecord("search_for_iterations", n)
    /\ last' = NoLast
    /\ UNCHANGED <<game, derived, work, sel, unit>>

\* MCTS::search_for_time(duration) up to the loop of the derived search
SearchForTime ==
    /\ pc = "idle"
    /\ work + mcts.config.max_iterations <= MaxWork
    /\ \E duration \in {0, 1} :
          LET m == recycle_tree(game, mcts)
              d == ResetStatistics(
                       SearchPrologue(game, DerivedEngine(game, m, duration)))
          IN /\ mcts' = m
             /\ derived' = IF RootEmpty(d) THEN Dropped ELSE d
             /\ EnterLoop("derived", d, d.config.max_iterations)
             /\ call' = CallRecord("search_for_time", d.config.max_iterations)
    /\ last' = NoLast
    /\ UNCHANGED <<game, work, sel, unit>>

\* MCTS::recycle_tree called by the user
RecycleTree ==
    /\ pc = "idle"
    /\ mcts' = recycle_tree(game, mcts)
    /\ call' = CallRecord("recycle_tree", 0)
    /\ ret' = NoRet
    /\ last' = NoLast
    /\ UNCHANGED <<game, derived, active, pc, budget, iter, elapsed, work, sel, unit>>

\* the time check with > for >=
TimeUp_strict(m) == m.config.max_time # NoTime /\ elapsed > m.config.max_time

\* `start_time.elapsed() >= max_duration` with max_time = Some(max_duration)
TimeUp(m) == m.config.max_time # NoTime /\ elapsed >= m.config.max_time

\* how far the clock may advance during one iteration; the clock is read
\* only when a time limit is configured
Ticks(m) == IF m.config.max_time = NoTime THEN {0} ELSE {0, 1}

\* the loop writing to the caller's engine whichever engine is searched
SetEngine_caller(m) == mcts' = m /\ UNCHANGED derived

\* the loop's writes go to the engine it runs on
SetEngine(m) ==
    IF active = "main" THEN mcts' = m /\ UNCHANGED derived
    ELSE derived' = m /\ UNCHANGED mcts

\* the assignments of one pass of the loop, r being what execute_iteration did
Iterated(r, result, tick) ==
    /\ SetEngine([r.m EXCEPT !.statistics.iterations = IterationsAfter(iter)])
    /\ last' = [valid |-> TRUE, engine |-> active,
                pre |-> Engine.root, path |-> r.selected_path,
                expanded_path |-> r.expanded_path,
                expanded |-> r.expanded, result |-> result,
                state |-> r.state]
    /\ elapsed' = elapsed + tick

\* the indices the rng may draw in MCTS::expansion on the selected node
Draws(node) == 0..Max(Len(node.unexpanded_actions) - 1, 0)

\* one pass of the loop: the time check passes, execute_iteration runs
Iterate ==
    /\ pc = "loop" /\ iter < budget /\ ~TimeUp(Engine)
    /\ \E result \in Rewards, tick \in Ticks(Engine),
          action_index \in
              Draws(NodeAt(Engine.root, selection(game, Engine).path)) :
          Iterated(execute_iteration(game, Engine, action_index, result),
                   result, tick)
    /\ iter' = iter + 1
    /\ work' = work + 1
    /\ UNCHANGED <<game, active, pc, call, budget, ret, sel, unit>>

\* the rest of the call once the loop is left
Return(m, via) ==
    LET m1 == Epilogue(m)
        result == select_best_action(m1)
    IN /\ IF active = "main"
          THEN mcts' = m1 /\ UNCHANGED derived
          ELSE /\ derived' = Dropped
               /\ mcts' = IF result.ok
                          THEN [mcts EXCEPT !.statistics = m1.statistics]
                          ELSE mcts
       /\ ret' = [valid |-> TRUE, ok |-> result.ok, action |-> result.action,
                  via |-> via]
       /\ pc' = "idle"
       /\ active' = "main"
       /\ last' = NoLast
       /\ UNCHANGED <<game, call, budget, iter, elapsed, work, sel, unit>>

\* the time check fails: stopped_early, break, and the call returns
StopEarly ==
    /\ pc = "loop" /\ iter < budget /\ TimeUp(Engine)
    /\ Return([Engine EXCEPT !.statistics.stopped_early = TRUE], "time")

\* the range 0..iterations is exhausted and the call returns
Complete ==
    /\ pc = "loop" /\ iter >= budget
    /\ Return(Engine, "budget")

Next ==
    \/ Search
    \/ SearchForIterations
    \/ SearchForTime
    \/ RecycleTree
    \/ Iterate
    \/ StopEarly
    \/ Complete

Spec == Init /\ [][Next]_vars

----------------------------------------------------------------------------
(* select_child called on its own: a node with two or three children whose *)
(* statistics are drawn from bounded sets, under each policy and a range   *)
(* of exploration constants up to the largest finite f64 and infinity.     *)

ExplorationConstants == {0, 1414, 0 - 1414, FMax, PosInf}

\* a child with the given counters
StatChild(action, visits, wins) ==
    [MCTSNode_new([width |-> 0, ply |-> 0, termActs |-> FALSE, deadEnd |-> FALSE],
                  <<action>>, action, 1, 1) EXCEPT
        !.visits = visits,
        !.total_reward = wins * REWARD_SCALE,
        !.sum_squared_reward = wins * REWARD_SCALE]

\* <<visits, number of rewards that were 1.0>>
ChildStats == { vw \in (0..MaxStat) \X (0..MaxStat) : vw[2] = 0 \/ vw[2] = vw[1] }

StatParent(visits, stats) ==
    [MCTSNode_new([width |-> 0, ply |-> 0, termActs |-> FALSE, deadEnd |-> FALSE],
                  <<>>, None, None, 0) EXCEPT
        !.visits = visits,
        !.children = [i \in 1..Len(stats) |->
                         StatChild(i, stats[i][1], stats[i][2])]]

InitSel ==
    /\ game = [width |-> 0, ply |-> 0, termActs |-> FALSE, deadEnd |-> FALSE]
    /\ mcts = Dropped
    /\ derived = Dropped
    /\ active = "main"
    /\ pc = "select"
    /\ call = NoCall
    /\ budget = 0
    /\ iter = 0
    /\ elapsed = 0
    /\ ret = NoRet
    /\ work = 0
    /\ last = NoLast
    /\ unit = NoUnit
    /\ \E k \in {"UCB1", "UCB1Tuned", "PUCT"}, c \in ExplorationConstants,
          n \in 0..(MaxStat + 1),
          stats \in UNION { [1..len -> ChildStats] : len \in 2..3 } :
          sel = [policy |-> [kind |-> k, exploration_constant |-> c],
                 node |-> StatParent(n, stats),
                 out |-> 0, done |-> FALSE]

\* `policy.select_child(&node)`
SelectChild ==
    /\ pc = "select" /\ ~sel.done
    /\ sel' = [sel EXCEPT !.out = select_child(sel.policy, sel.node),
                          !.done = TRUE]
    /\ UNCHANGED <<game, mcts, derived, active, pc, call, budget, iter,
                   elapsed, ret, work, last, unit>>

NextSel == SelectChild

SpecSel == InitSel /\ [][NextSel]_vars

----------------------------------------------------------------------------
(* Calls on a pool alone: NodePool::create_node on a pool whose free list  *)
(* holds nodes that were used before.                                      *)

\* the engine's variables while a call on a node or a pool alone is studied
NoEngine ==
    /\ game = [width |-> 0, ply |-> 0, termActs |-> FALSE, deadEnd |-> FALSE]
    /\ mcts = Dropped
    /\ derived = Dropped
    /\ active = "main"
    /\ call = NoCall
    /\ budget = 0
    /\ iter = 0
    /\ elapsed = 0
    /\ ret = NoRet
    /\ work = 0
    /\ last = NoLast
    /\ sel = NoSel

engineVars == <<game, mcts, derived, active, pc, call, budget, iter, elapsed,
                ret, work, last, sel>>

\* nodes as recycle_node leaves them on the free list: children and
\* unexpanded actions cleared, every other field as the tree left it
UsedNodes ==
    { [Placeholder(<<>>) EXCEPT
          !.state = s, !.action = a, !.depth = d, !.player = pl,
          !.visits = c, !.total_reward = c * 750000,
          !.sum_squared_reward = c * 562500,
          !.rave_visits = c, !.rave_reward = c * 750000,
          !.prior = pr] :
        s \in {<<>>, <<2>>}, a \in {None, 2}, d \in {0, 3}, pl \in {1, 2},
        c \in {0, 3}, pr \in {REWARD_SCALE, 250000} }

\* the free lists of the pools under test
FreeLists ==
    {<<>>} \cup { <<n>> : n \in UsedNodes }
           \cup { <<Placeholder(<<>>), n>> : n \in UsedNodes }

InitPool ==
    /\ NoEngine
    /\ pc = "unit"
    /\ \E g \in Games, free \in FreeLists, state \in {<<>>, <<1>>},
          action \in {None, 1}, parent_player \in {None, 1, 2},
          depth \in {0, 1} :
          unit = [op |-> "create_node", g |-> g,
                  pool |-> [NodePool_new(<<>>, 0) EXCEPT
                               !.free_nodes = free,
                               !.total_created = Len(free)],
                  state |-> state, action |-> action,
                  parent_player |-> parent_player, depth |-> depth,
                  out |-> [node |-> Placeholder(<<>>),
                           pool |-> NodePool_new(<<>>, 0)],
                  done |-> FALSE]

\* `pool.create_node(state, action, parent_player, depth)`
CreateNode ==
    /\ pc = "unit" /\ unit.op = "create_node" /\ ~unit.done
    /\ unit' = [unit EXCEPT
                   !.out = create_node(unit.g, unit.pool, unit.state,
                               unit.action, unit.parent_player, unit.depth),
                   !.done = TRUE]
    /\ UNCHANGED engineVars

NextPool == CreateNode

SpecPool == InitPool /\ [][NextPool]_vars

----------------------------------------------------------------------------
(* update_stats called on a node alone: a root with one child, and nodes   *)
(* of depth 1, 2 and 3 with an inbound action, under each backpropagation  *)
(* policy, with results from below zero up to the largest finite f64.      *)

NodeGame == [width |-> 2, ply |-> 3, termActs |-> FALSE, deadEnd |-> FALSE]

BackpropagationPolicies ==
    { [kind |-> "Standard", depth_factor |-> 0],
      [kind |-> "Weighted", depth_factor |-> FScale],
      [kind |-> "Weighted", depth_factor |-> 0 - (FScale \div 2)],
      [kind |-> "RAVE", depth_factor |-> 0] }

FreshNodes ==
    { expand(NodeGame, MCTSNode_new(NodeGame, <<>>, None, None, 0), 0).node,
      MCTSNode_new(NodeGame, <<1>>, 1, 1, 1),
      MCTSNode_new(NodeGame, <<1, 2>>, 2, 2, 2),
      MCTSNode_new(NodeGame, <<1, 2, 1>>, 1, 1, 3) }

Results == {0 - FScale, FScale \div 2, FScale, FMax}

Traces == {NoTrace, SomeTrace(<<2>>), SomeTrace(<<2, 1>>)}

\* unit.hist is the list of the results passed so far, unit.pre the node
\* before the last call
InitNode ==
    /\ NoEngine
    /\ pc = "unit"
    /\ \E policy \in BackpropagationPolicies, node \in FreshNodes :
          unit = [op |-> "update_stats", policy |-> policy, node |-> node,
                  pre |-> node, result |-> 0, trace |-> NoTrace,
                  hist |-> <<>>]

\* `policy.update_stats(&mut node, result, trace)`
UpdateStats ==
    /\ pc = "unit" /\ unit.op = "update_stats"
    /\ Len(unit.hist) < MaxUpdates
    /\ \E result \in Results, trace \in Traces :
          unit' = [unit EXCEPT
                      !.pre = unit.node,
                      !.node = update_stats(unit.policy, unit.node, result,
                                            trace),
                      !.result = result,
                      !.trace = trace,
                      !.hist = Append(@, result)]
    /\ UNCHANGED engineVars

NextNode == UpdateStats

SpecNode == InitNode /\ [][NextNode]_vars

----------------------------------------------------------------------------
(* Threads that share one node and call increment_visits, add_reward and   *)
(* add_squared_reward on it (the methods take &self).  Every method is one *)
(* fetch_add on an AtomicU64, an indivisible read-modify-write, so a call  *)
(* is one step; the steps of the threads interleave freely.                *)

Threads == 1..MaxThreads

IncrementVisits == [fn |-> "increment_visits", reward |-> 0]
AddReward(reward) == [fn |-> "add_reward", reward |-> reward]
AddSquaredReward(reward) == [fn |-> "add_squared_reward", reward |-> reward]

\* what a thread runs: the three calls of a standard update for a reward,
\* the same in another order, or single calls
Programs ==
    { <<IncrementVisits, AddReward(FScale), AddSquaredReward(FScale)>>,
      <<AddReward(FScale \div 2), IncrementVisits>>,
      <<AddSquaredReward(FScale \div 2), AddReward(FScale \div 4)>>,
      <<IncrementVisits>> }

\* the call with a load of the counter at the thread's previous call and a
\* store now, in place of the fetch_add
Invoke_load_store(node, seen, c) ==
    IF c.fn = "increment_visits"
    THEN [node EXCEPT !.visits = increment_visits(seen).visits]
    ELSE IF c.fn = "add_reward"
         THEN [node EXCEPT !.total_reward =
                               add_reward(seen, c.reward).total_reward]
    ELSE [node EXCEPT !.sum_squared_reward =
                          add_squared_reward(seen, c.reward).sum_squared_reward]

\* one call of a thread on the shared node; `seen` is the node as the thread
\* found it at its previous call, which a fetch_add never uses
Invoke(node, seen, c) ==
    IF c.fn = "increment_visits" THEN increment_visits(node)
    ELSE IF c.fn = "add_reward" THEN add_reward(node, c.reward)
    ELSE add_squared_reward(node, c.reward)

\* unit.prog[t] is the program of thread t, unit.at[t] the number of its
\* calls that have returned, unit.seen[t] the node after its last call
InitThreads ==
    /\ NoEngine
    /\ pc = "unit"
    /\ \E prog \in [Threads -> Programs] :
          LET node == MCTSNode_new(NodeGame, <<>>, None, None, 0)
          IN unit = [op |-> "threads", node |-> node, prog |-> prog,
                     at |-> [t \in Threads |-> 0],
                     seen |-> [t \in Threads |-> node]]

\* thread t performs its next call
ThreadCall(t) ==
    /\ pc = "unit" /\ unit.op = "threads"
    /\ unit.at[t] < Len(unit.prog[t])
    /\ LET node == Invoke(unit.node, unit.seen[t],
                          unit.prog[t][unit.at[t] + 1])
       IN unit' = [unit EXCEPT !.node = node,
                               !.at[t] = @ + 1,
                               !.seen[t] = node]
    /\ UNCHANGED engineVars

NextThreads == \E t \in Threads : ThreadCall(t)

SpecThreads == InitThreads /\ [][NextThreads]_vars

----------------------------------------------------------------------------
(* simulate called on a policy alone: terminal and non-terminal states,    *)
(* the random and the heuristic policy, and mixtures of up to MaxPolicies  *)
(* of them with probabilities 0, 0.5 and 1.                                *)

\* a terminal state's playout is its own result
SimStates ==
    { [terminal |-> TRUE, result |-> r, playout |-> r] :
        r \in {FScale \div 4, (3 * FScale) \div 4} }
    \cup
    { [terminal |-> FALSE, result |-> r, playout |-> p] :
        r \in {FScale \div 4, (3 * FScale) \div 4}, p \in {0, FScale} }

BoxedPolicies ==
    { [kind |-> "Random", heuristic |-> 0, policies |-> <<>>] }
    \cup
    { [kind |-> "Heuristic", heuristic |-> h, policies |-> <<>>] :
        h \in {300, 420} }

Weighted_policies ==
    { [policy |-> p, prob |-> w] :
        p \in BoxedPolicies, w \in {0, FScale \div 2, FScale} }

RECURSIVE Lists(_, _)
\* the lists of at most n elements of S
Lists(S, n) ==
    IF n = 0 THEN {<<>>}
    ELSE Lists(S, n - 1)
         \cup { Append(l, x) : l \in { k \in Lists(S, n - 1) : Len(k) = n - 1 },
                               x \in S }

SimulationPolicies ==
    BoxedPolicies
    \cup { [kind |-> "Mixture", heuristic |-> 0, policies |-> l] :
             l \in Lists(Weighted_policies, MaxPolicies) }

InitSim ==
    /\ NoEngine
    /\ pc = "unit"
    /\ \E policy \in SimulationPolicies, state \in SimStates :
          unit = [op |-> "simulate", policy |-> policy, state |-> state,
                  out |-> Simulated(0, "none"), done |-> FALSE]

\* `policy.simulate(&state)`
Simulate ==
    /\ pc = "unit" /\ unit.op = "simulate" /\ ~unit.done
    /\ \E out \in simulate(unit.policy, unit.state) :
          unit' = [unit EXCEPT !.out = out, !.done = TRUE]
    /\ UNCHANGED engineVars

NextSim == Simulate

SpecSim == InitSim /\ [][NextSim]_vars

----------------------------------------------------------------------------
(* expand and expand_with_pool called on a node alone: nodes of a game     *)
(* with three actions, from a fresh one to a fully expanded one, with      *)
(* every index from 0 up to one past the longest list.                     *)

ExpandGame == [width |-> 3, ply |-> 2, termActs |-> FALSE, deadEnd |-> FALSE]

RECURSIVE ExpandedTimes(_, _)
\* the node after expand(0) was called n times on it
ExpandedTimes(node, n) ==
    IF n = 0 THEN node
    ELSE ExpandedTimes(expand(ExpandGame, node, 0).node, n - 1)

ExpandNodes ==
    LET root == MCTSNode_new(ExpandGame, <<>>, None, None, 0)
        child == MCTSNode_new(ExpandGame, <<2>>, 2, 1, 1)
    IN { ExpandedTimes(root, n) : n \in 0..3 }
       \cup { StandardPolicy_update_stats(ExpandedTimes(child, n), FScale) :
                n \in 0..3 }

ExpandIndices == 0..3

ExpandPools ==
    { [NodePool_new(<<>>, 0) EXCEPT !.free_nodes = free,
                                    !.total_created = Len(free)] :
        free \in FreeLists }

InitExpand ==
    /\ NoEngine
    /\ pc = "unit"
    /\ \E node \in ExpandNodes, action_index \in ExpandIndices :
          \/ unit = [op |-> "expand", node |-> node,
                     action_index |-> action_index, pool |-> NoPool,
                     out |-> [ok |-> FALSE, node |-> node, pool |-> NoPool],
                     done |-> FALSE]
          \/ \E pool \in ExpandPools :
                unit = [op |-> "expand_with_pool", node |-> node,
                        action_index |-> action_index, pool |-> pool,
                        out |-> [ok |-> FALSE, node |-> node, pool |-> pool],
                        done |-> FALSE]

\* `node.expand(action_index)`
Expand ==
    /\ pc = "unit" /\ unit.op = "expand" /\ ~unit.done
    /\ unit' = [unit EXCEPT
                   !.out = WithoutPool(expand(ExpandGame, unit.node,
                                              unit.action_index), unit.pool),
                   !.done = TRUE]
    /\ UNCHANGED engineVars

\* `node.expand_with_pool(action_index, &mut pool)`
ExpandWithPool ==
    /\ pc = "unit" /\ unit.op = "expand_with_pool" /\ ~unit.done
    /\ unit' = [unit EXCEPT
                   !.out = expand_with_pool(ExpandGame, unit.node,
                                            unit.action_index, unit.pool),
                   !.done = TRUE]
    /\ UNCHANGED engineVars

NextExpand == Expand \/ ExpandWithPool

SpecExpand == InitExpand /\ [][NextExpand]_vars

----------------------------------------------------------------------------
(* A subtree given back to a pool: every tree that expansion can build in  *)
(* a game of two actions and two plies, recycled by NodePool::recycle_tree *)
(* or by recycle_subtree_recursive into a pool whose free list is empty or *)
(* holds nodes already.                                                    *)

RecycleGame == [width |-> 2, ply |-> 2, termActs |-> FALSE, deadEnd |-> FALSE]

RECURSIVE Expansions(_)
\* the node and what any number of expand calls, with any index, make of it
Expansions(node) ==
    {node} \cup UNION { Expansions(expand(RecycleGame, node, i).node) :
                          i \in 0..(Len(node.unexpanded_actions) - 1) }

RECURSIVE ChildChoices(_)
\* the children lists in which every child has been expanded in turn
ChildChoices(children) ==
    IF children = <<>> THEN {<<>>}
    ELSE { <<c>> \o rest : c \in Expansions(Head(children)),
                           rest \in ChildChoices(Tail(children)) }

\* the trees below a fresh root
RecycleTrees ==
    UNION { { [node EXCEPT !.children = kids] :
                kids \in ChildChoices(node.children) } :
            node \in Expansions(MCTSNode_new(RecycleGame, <<>>, None, None, 0)) }

InitRecycle ==
    /\ NoEngine
    /\ pc = "unit"
    /\ \E root \in RecycleTrees, pool \in ExpandPools,
          op \in {"recycle_tree", "recycle_subtree_recursive"} :
          unit = [op |-> op, root |-> root, pool |-> pool, out |-> pool,
                  done |-> FALSE]

\* `pool.recycle_tree(root)`
PoolRecycleTree ==
    /\ pc = "unit" /\ unit.op = "recycle_tree" /\ ~unit.done
    /\ unit' = [unit EXCEPT !.out = NodePool_recycle_tree(unit.pool, unit.root),
                            !.done = TRUE]
    /\ UNCHANGED engineVars

\* `recycle_subtree_recursive(root, &mut pool)`
RecycleSubtree ==
    /\ pc = "unit" /\ unit.op = "recycle_subtree_recursive" /\ ~unit.done
    /\ unit' = [unit EXCEPT
                   !.out = recycle_subtree_recursive(unit.root, unit.pool),
                   !.done = TRUE]
    /\ UNCHANGED engineVars

NextRecycle == PoolRecycleTree \/ RecycleSubtree

SpecRecycle == InitRecycle /\ [][NextRecycle]_vars

----------------------------------------------------------------------------
(* Two fresh engines searched side by side: one built by MCTS::new without *)
(* a pool, one with a pool (built by with_node_pool, or by MCTS::new with  *)
(* a pool size in the configuration, which search creates).  Both get the  *)
(* same game, policies and call, and in every pass of the loop the same    *)
(* index from the rng and the same simulation result.                      *)

\* the configurations of the pair: each best-child criterion, no time limit
PairConfigs ==
    { [DefaultConfig EXCEPT !.best_child_criteria = b] :
        b \in {"MostVisits", "HighestValue"} }

\* the engines with a pool for a configuration and a selection policy
PooledEngines(g, config, policy) ==
    { MCTS_with_node_pool(g, InitialState, config, policy, size) :
        size \in 0..MaxIterations }
    \cup { MCTS_new(g, InitialState, [config EXCEPT !.node_pool_size = 1],
                    policy) }

InitPair ==
    /\ NoEngine
    /\ pc = "unit"
    /\ \E g \in Games, config \in PairConfigs,
          kind \in {"UCB1", "UCB1Tuned", "PUCT"} :
          LET policy == [kind |-> kind,
                         exploration_constant |-> config.exploration_constant]
          IN \E pooled \in PooledEngines(g, config, policy),
                fn \in {"search", "search_for_iterations"} :
                unit = [op |-> "pair", g |-> g, fn |-> fn, at |-> "idle",
                        plain |-> MCTS_new(g, InitialState, config, policy),
                        pooled |-> pooled,
                        n |-> 0, i |-> 0,
                        plain_ret |-> NoRet, pooled_ret |-> NoRet]

\* the head of search (with the configured budget) or of
\* search_for_iterations(n) on engine m
PairHead(g, fn, m) ==
    IF fn = "search" THEN ResetStatistics(SearchPrologue(g, m))
    ELSE ResetStatistics(m)

\* the call's result for engine m once it has left the loop, or at once
\* when the root has no action
PairResult(m) ==
    IF RootEmpty(m)
    THEN [valid |-> TRUE, ok |-> FALSE, action |-> None, via |-> "none"]
    ELSE [valid |-> TRUE, ok |-> select_best_action(Epilogue(m)).ok,
          action |-> select_best_action(Epilogue(m)).action, via |-> "budget"]

\* both calls start
PairCall ==
    /\ pc = "unit" /\ unit.op = "pair" /\ unit.at = "idle"
    /\ \E n \in IF unit.fn = "search" THEN {unit.plain.config.max_iterations}
                ELSE 0..MaxWork :
          unit' = [unit EXCEPT
                      !.plain = PairHead(unit.g, unit.fn, unit.plain),
                      !.pooled = PairHead(unit.g, unit.fn, unit.pooled),
                      !.n = n,
                      !.at = "loop"]
    /\ UNCHANGED engineVars

\* one pass of the loop in both calls, with the same draw and result
PairIterate ==
    /\ pc = "unit" /\ unit.op = "pair" /\ unit.at = "loop"
    /\ ~RootEmpty(unit.plain) /\ ~RootEmpty(unit.pooled)
    /\ unit.i < unit.n
    /\ \E result \in Rewards,
          action_index \in
              Draws(NodeAt(unit.plain.root,
                           selection(unit.g, unit.plain).path)) :
          unit' = [unit EXCEPT
              !.plain = [execute_iteration(unit.g, unit.plain, action_index,
                                           result).m
                            EXCEPT !.statistics.iterations =
                                       IterationsAfter(unit.i)],
              !.pooled = [execute_iteration(unit.g, unit.pooled, action_index,
                                            result).m
                             EXCEPT !.statistics.iterations =
                                        IterationsAfter(unit.i)],
              !.i = unit.i + 1]
    /\ UNCHANGED engineVars

\* both calls return
PairReturn ==
    /\ pc = "unit" /\ unit.op = "pair" /\ unit.at = "loop"
    /\ RootEmpty(unit.plain) \/ RootEmpty(unit.pooled) \/ unit.i >= unit.n
    /\ unit' = [unit EXCEPT
                   !.plain = IF RootEmpty(@) THEN @ ELSE Epilogue(@),
                   !.pooled = IF RootEmpty(@) THEN @ ELSE Epilogue(@),
                   !.plain_ret = PairResult(unit.plain),
                   !.pooled_ret = PairResult(unit.pooled),
                   !.at = "done"]
    /\ UNCHANGED engineVars

NextPair == PairCall \/ PairIterate \/ PairReturn

SpecPair == InitPair /\ [][NextPair]_vars

----------------------------------------------------------------------------
(* Properties *)

Range(seq) == { seq[i] : i \in 1..Len(seq) }

\* the inbound actions of the node's children and its unexpanded actions
ActionsOf(node) ==
    { node.children[i].action : i \in 1..Len(node.children) }
        \cup Range(node.unexpanded_actions)

\* a call has returned and no other call was made since
Returned == pc = "idle" /\ ret.valid

\* the call was a search or search_for_iterations on the engine itself
MainCall == call.kind \in {"search", "search_for_iterations"}

\* C1: a search or search_for_iterations call made when the root had an
\* unexpanded action or a child returns Ok(a), and a is a legal action of the
\* root state: the inbound action of a root child or an unexpanded action of
\* the root.
C1_SearchReturnsLegalAction ==
    (Returned /\ MainCall /\ ~call.empty0) =>
        /\ ret.ok
        /\ ret.action \in ActionsOf(mcts.root)
        /\ ret.action \in Range(get_legal_actions(game, mcts.root.state))

\* a repeated search on a pooled engine returned the action of a root child
C1_Witness ==
    /\ Returned /\ call.kind = "search" /\ ret.ok /\ mcts.has_pool
    /\ call.visits0 > 0
    /\ mcts.root.children # <<>>
    /\ ret.action = mcts.root.children[1].action

\* C2: a search or search_for_iterations call on a root with no unexpanded
\* action and no child returns Err(NoLegalActions) and runs no iteration: the
\* root has no children, its visit count is what it was, and
\* statistics.iterations is 0.
C2_EmptyRootFails ==
    (Returned /\ MainCall /\ call.empty0) =>
        /\ ~ret.ok
        /\ mcts.root.children = <<>>
        /\ mcts.root.visits = call.visits0
        /\ mcts.statistics.iterations = 0

\* search on a root without actions has returned the error
C2_Witness ==
    /\ Returned /\ call.kind = "search" /\ call.empty0 /\ call.n > 0
    /\ ~ret.ok /\ get_legal_actions(game, mcts.root.state) = <<>>

RECURSIVE ActionsConserved(_, _)
\* every non-terminal node of the subtree holds each legal action of its
\* state exactly once, as a child or as an unexpanded action
ActionsConserved(g, node) ==
    /\ ~is_terminal(g, node.state) =>
          /\ Len(node.children) + Len(node.unexpanded_actions)
                = Len(get_legal_actions(g, node.state))
          /\ ActionsOf(node) = Range(get_legal_actions(g, node.state))
    /\ \A i \in 1..Len(node.children) : ActionsConserved(g, node.children[i])

\* C3: in every reachable state every non-terminal node of the engine's tree
\* has children.len() + unexpanded_actions.len() equal to the number of legal
\* actions of its state, no action being lost or expanded twice.
C3_ActionsConserved ==
    /\ ActionsConserved(game, mcts.root)
    /\ active = "derived" => ActionsConserved(game, derived.root)

\* C4: after an iteration whose expansion created a child, the new child has
\* visits = 1 and total_reward equal to the simulation result, and the root
\* and every node of the selected path have one visit more than before.
C4_NewChildBackpropagated ==
    (last.valid /\ last.expanded) =>
        LET child == NodeAt(Engine.root, last.expanded_path)
        IN /\ child.visits = 1
           /\ child.total_reward = float_to_scaled_u64(last.result)
           /\ \A k \in 0..Len(last.path) :
                 NodeAt(Engine.root, SubSeq(last.path, 1, k)).visits
                    = NodeAt(last.pre, SubSeq(last.path, 1, k)).visits + 1

\* the indices of the children without visits
Unvisited(node) ==
    { i \in 0..(Len(node.children) - 1) : node.children[i + 1].visits = 0 }

\* C5: under UCB1, UCB1-Tuned and PUCT, with any exploration constant, a node
\* with a child of zero visits has select_child return the lowest index of
\* such a child.
C5_UnvisitedChildFirst ==
    (sel.done /\ Unvisited(sel.node) # {}) =>
        /\ sel.out \in Unvisited(sel.node)
        /\ \A i \in Unvisited(sel.node) : sel.out <= i

\* the lowest index among the children with the most visits
LowestMostVisited(children) ==
    CHOOSE i \in 0..(Len(children) - 1) :
        /\ \A j \in 0..(Len(children) - 1) :
              children[j + 1].visits <= children[i + 1].visits
        /\ \A j \in 0..(i - 1) : children[j + 1].visits < children[i + 1].visits

\* the lowest index among the children with the highest value()
LowestHighestValue(children) ==
    CHOOSE i \in 0..(Len(children) - 1) :
        /\ \A j \in 0..(Len(children) - 1) :
              ~FGt(value(children[j + 1]), value(children[i + 1]))
        /\ \A j \in 0..(i - 1) :
              FGt(value(children[i + 1]), value(children[j + 1]))

\* C6: the action a search returns is the first unexpanded action of the
\* root when the root has no children, and otherwise the inbound action of
\* the lowest-index root child whose visits (MostVisits) or value()
\* (HighestValue) is maximal.
C6_BestActionFirstMaximal ==
    (Returned /\ MainCall /\ ret.ok) =>
        ret.action =
            IF mcts.root.children = <<>> THEN mcts.root.unexpanded_actions[1]
            ELSE IF mcts.config.best_child_criteria = "MostVisits"
            THEN mcts.root.children[
                     LowestMostVisited(mcts.root.children) + 1].action
            ELSE mcts.root.children[
                     LowestHighestValue(mcts.root.children) + 1].action

\* two visited root children tie on visits and the earlier one was returned
C6_Witness ==
    /\ Returned /\ MainCall /\ ret.ok
    /\ mcts.config.best_child_criteria = "MostVisits"
    /\ Len(mcts.root.children) >= 2
    /\ mcts.root.children[1].visits >= 1
    /\ mcts.root.children[2].visits = mcts.root.children[1].visits
    /\ ret.action = mcts.root.children[1].action

\* C7: with no time limit a search_for_iterations(n) call on a root with
\* actions returns with statistics.iterations = n and stopped_early = false;
\* with a time limit statistics.iterations <= n.  While the loop runs,
\* statistics.iterations is the number of passes made, at most n.
C7_IterationBudget ==
    /\ (Returned /\ MainCall /\ ~call.empty0) =>
          /\ mcts.statistics.iterations <= call.n
          /\ mcts.config.max_time = NoTime =>
                /\ mcts.statistics.iterations = call.n
                /\ ~mcts.statistics.stopped_early
    /\ pc = "loop" =>
          /\ iter <= budget
          /\ Engine.statistics.iterations = iter

\* search_for_iterations(n) with the largest n and no time limit has returned
C7_Witness ==
    /\ Returned /\ call.kind = "search_for_iterations" /\ call.n >= 2
    /\ mcts.config.max_time = NoTime
    /\ mcts.statistics.iterations = call.n

\* the time limit is reached at the iteration boundary the loop is at, with
\* the budget not used up
TimeReached ==
    /\ pc = "loop" /\ iter < budget
    /\ Engine.config.max_time # NoTime
    /\ elapsed >= Engine.config.max_time

\* C8: when the time limit is reached at an iteration boundary before the
\* budget is used up, the search stops there, sets stopped_early and returns
\* Ok; and a search that returns Ok has stopped_early set only if it left the
\* loop through the time check.
C8_StopsEarlyAtBoundary ==
    [][ /\ TimeReached =>
              /\ pc' = "idle" /\ ret'.valid /\ ret'.ok
              /\ mcts'.statistics.stopped_early
              /\ work' = work
        /\ (pc' = "idle" /\ ret'.valid /\ ret'.ok) =>
              (mcts'.statistics.stopped_early <=> TimeReached) ]_vars

\* a search stopped by the time limit after at least one iteration
C8_Witness ==
    /\ Returned /\ ret.ok /\ ret.via = "time"
    /\ mcts.statistics.stopped_early
    /\ mcts.statistics.iterations >= 1
    /\ mcts.statistics.iterations < call.n

\* C9: when the loop of a search or search_for_time call starts on an engine
\* with a pool, the root of the tree being searched is a fresh node for the
\* root state: no children, the full list of legal actions as
\* unexpanded_actions, counters zero.
C9_FreshRootOnNewSearch ==
    (call.kind \in {"search", "search_for_time"} /\ mcts.has_pool
        /\ pc = "loop" /\ iter = 0) =>
        Engine.root = MCTSNode_new(game, Engine.root.state, None, None, 0)

\* C10: after recycle_tree on an engine with a pool the root has no children,
\* and has an unexpanded action if its state has a legal action.
C10_RecycleKeepsRootActions ==
    (mcts.has_pool /\ pc = "idle" /\ ~ret.valid /\ call.kind = "recycle_tree") =>
        /\ mcts.root.children = <<>>
        /\ get_legal_actions(game, mcts.root.state) # <<>> =>
              mcts.root.unexpanded_actions # <<>>

\* recycle_tree has recycled the children of a fully expanded root
C10_Witness ==
    /\ mcts.has_pool /\ pc = "idle" /\ ~ret.valid /\ call.kind = "recycle_tree"
    /\ mcts.node_pool.total_recycled >= 2
    /\ mcts.root.visits >= 2
    /\ Len(mcts.root.unexpanded_actions) = game.width

\* what one step does to a pool: the nodes it recycles all enter the free
\* list, and the nodes it creates are taken from the free list as long as it
\* holds any, total_created growing only by the creations beyond that
PoolStep(p, q) ==
    LET recycled == q.total_recycled - p.total_recycled
        allocated == q.total_allocations - p.total_allocations
        available == Len(p.free_nodes) + recycled
    IN /\ recycled >= 0 /\ allocated >= 0
       /\ q.total_created - p.total_created = Max(0, allocated - available)
       /\ Len(q.free_nodes) = Max(0, available - allocated)

\* C11: after k nodes were recycled into a pool, the next k nodes created
\* through that pool are taken from the free list: total_created does not
\* grow while the free list holds a node.
C11_RecycledNodesReused ==
    [][ /\ (mcts.has_pool /\ mcts'.has_pool) =>
              PoolStep(mcts.node_pool, mcts'.node_pool)
        /\ (active = "derived" /\ active' = "derived"
               /\ derived.has_pool /\ derived'.has_pool) =>
              PoolStep(derived.node_pool, derived'.node_pool) ]_vars

\* two nodes were recycled and the next two creations reused them
C11_Witness ==
    /\ mcts.has_pool
    /\ mcts.node_pool.total_recycled = 2
    /\ mcts.node_pool.total_allocations = 4
    /\ mcts.node_pool.total_created = 2
    /\ Len(mcts.root.children) = 2

\* C12: whatever the node popped from the free list held before, create_node
\* returns a node equal in every field to MCTSNode::new called with the same
\* state, action, parent_player and depth.
C12_RefurbishedEqualsNew ==
    (unit.op = "create_node" /\ unit.done) =>
        unit.out.node = MCTSNode_new(unit.g, unit.state, unit.action,
                                     unit.parent_player, unit.depth)

\* a node with old counters, prior, state, action, depth and player was
\* popped and handed out
C12_Witness ==
    /\ unit.op = "create_node" /\ unit.done
    /\ unit.pool.free_nodes # <<>>
    /\ LET old == unit.pool.free_nodes[Len(unit.pool.free_nodes)]
       IN /\ old.visits > 0 /\ old.total_reward > 0 /\ old.rave_visits > 0
          /\ old.prior # REWARD_SCALE
          /\ old.state # unit.state /\ old.action # unit.action
          /\ old.depth # unit.depth /\ old.player # unit.out.node.player
    /\ Len(unit.out.pool.free_nodes) = Len(unit.pool.free_nodes) - 1
    /\ unit.out.node.unexpanded_actions # <<>>

RECURSIVE NodeCount(_)
RECURSIVE NodeCountOf(_)
\* the number of nodes of the trees of a list of children
NodeCountOf(children) ==
    IF children = <<>> THEN 0
    ELSE NodeCount(Head(children)) + NodeCountOf(Tail(children))

\* the number of nodes of the subtree
NodeCount(node) == 1 + NodeCountOf(node.children)

----------------------------------------------------------------------------
\* an update_stats call has returned
Updated(kind) ==
    unit.op = "update_stats" /\ unit.policy.kind = kind /\ unit.hist # <<>>

\* the trace of the last call names the inbound action of the node
TraceNamesAction ==
    /\ unit.trace.some
    /\ unit.pre.action # None
    /\ unit.pre.action \in Range(unit.trace.actions)

\* the counter `c` after the scaled value of the float `x` was added
Plus(c, x) == (c + float_to_scaled_u64(x)) % U64Modulus

\* C14: RavePolicy.update_stats always applies the standard update
\* (visits + 1, total_reward + result); it adds 1 to rave_visits and the
\* result to rave_reward if and only if a trace is supplied, the node has an
\* inbound action and some action of the trace has that action's id;
\* otherwise both RAVE counters are unchanged.
C14_RaveUpdateIffActionInTrace ==
    Updated("RAVE") =>
        /\ unit.node.visits = unit.pre.visits + 1
        /\ unit.node.total_reward = Plus(unit.pre.total_reward, unit.result)
        /\ IF TraceNamesAction
           THEN /\ unit.node.rave_visits = unit.pre.rave_visits + 1
                /\ unit.node.rave_reward =
                       Plus(unit.pre.rave_reward, unit.result)
           ELSE /\ unit.node.rave_visits = unit.pre.rave_visits
                /\ unit.node.rave_reward = unit.pre.rave_reward

\* a node with inbound action 1 was updated three times: without a trace,
\* with a trace that lacks action 1, and last with a trace that holds it
C14_Witness ==
    /\ Updated("RAVE")
    /\ unit.pre.action = 1
    /\ unit.trace = SomeTrace(<<2, 1>>)
    /\ unit.result = FScale \div 2
    /\ unit.node.visits = 3
    /\ unit.node.rave_visits = 1
    /\ unit.node.rave_reward = 500000

\* C15: every update_stats call of the Standard, Weighted and RAVE policies
\* adds exactly 1 to visits; StandardPolicy adds the scaled result to
\* total_reward and the scaled square of the result to sum_squared_reward
\* and leaves every other field of the node as it was.
C15_UpdateStatsOneVisit ==
    /\ (unit.op = "update_stats" /\ unit.hist # <<>>) =>
           unit.node.visits = unit.pre.visits + 1
    /\ Updated("Standard") =>
           unit.node =
              [unit.pre EXCEPT
                  !.visits = @ + 1,
                  !.total_reward = Plus(@, unit.result),
                  !.sum_squared_reward =
                      Plus(@, FMul(unit.result, unit.result))]

\* StandardPolicy updated the root that has a child, with 1.0 and then 0.5,
\* while a trace was supplied
C15_Witness ==
    /\ Updated("Standard")
    /\ Len(unit.node.children) = 1
    /\ unit.trace.some
    /\ unit.hist = <<FScale, FScale \div 2>>
    /\ unit.node.total_reward = 1500000
    /\ unit.node.sum_squared_reward = 1250000

RECURSIVE SumOf(_)
SumOf(seq) == IF seq = <<>> THEN 0 ELSE seq[1] + SumOf(Tail(seq))

\* every result of the list is a reward in [0, 1]
UnitRewards(seq) == \A i \in 1..Len(seq) : seq[i] >= 0 /\ seq[i] <= FScale

RECURSIVE SumScaled(_)
SumScaled(seq) ==
    IF seq = <<>> THEN 0
    ELSE float_to_scaled_u64(seq[1]) + SumScaled(Tail(seq))

\* C18: accumulating rewards never wraps the counter: after any sequence of
\* add_reward calls the stored total is the exact sum of the clamped scaled
\* addends (a negative reward adds 0), and no call makes the total smaller.
C18_RewardCounterNeverWraps ==
    (Updated("Standard") \/ Updated("RAVE")) =>
        /\ unit.node.total_reward = SumScaled(unit.hist)
        /\ unit.node.total_reward >= unit.pre.total_reward
        /\ unit.node.sum_squared_reward >= unit.pre.sum_squared_reward

----------------------------------------------------------------------------
RECURSIVE DeepestOf(_)
RECURSIVE Deepest(_)
\* the largest depth field of a node of the tree under `node`
Deepest(node) == Max(node.depth, DeepestOf(node.children))
DeepestOf(children) ==
    IF children = <<>> THEN 0
    ELSE Max(Deepest(children[1]), DeepestOf(Tail(children)))

\* the tree of the engine has no node deeper than the configured max_depth
WithinMaxDepth(m) ==
    m.config.max_depth # NoDepth => Deepest(m.root) <= m.config.max_depth

\* C20: if max_depth is set in the configuration, no node of the tree has a
\* depth greater than max_depth, in every reachable state.
C20_TreeWithinMaxDepth == WithinMaxDepth(mcts) /\ WithinMaxDepth(derived)

----------------------------------------------------------------------------
\* the last iteration ran on a fresh root and expanded it
ExpandedFreshRoot ==
    /\ last.valid /\ last.expanded
    /\ pc = "loop" /\ active = last.engine
    /\ last.path = <<>>
    /\ last.pre.children = <<>>
    /\ last.pre.visits = 0

\* C17: expansion materializes the unexpanded action at the index the
\* Expansion policy returns and stores the prior the policy returns on the
\* new child: one iteration from a fresh root under the default policy
\* (RandomExpansionPolicy) yields exactly one root child, whose action was
\* at an index i the policy can return and whose prior is the one returned
\* with i.
C17_ExpansionFollowsPolicy ==
    ExpandedFreshRoot =>
        /\ Len(Engine.root.children) = 1
        /\ \E i \in Draws(last.pre) :
              LET chosen ==
                      RandomExpansionPolicy_select_action_to_expand(last.pre, i)
                  child == Engine.root.children[1]
              IN /\ chosen.some
                 /\ child.action = last.pre.unexpanded_actions[chosen.index + 1]
                 /\ prior(child) = chosen.prior

----------------------------------------------------------------------------
\* the calls of thread t that have returned
ReturnedCalls(t) == SubSeq(unit.prog[t], 1, unit.at[t])

RECURSIVE CallsOf(_, _)
\* how many calls of the method `fn` the list holds
CallsOf(calls, fn) ==
    IF calls = <<>> THEN 0
    ELSE (IF calls[1].fn = fn THEN 1 ELSE 0) + CallsOf(Tail(calls), fn)

RECURSIVE AddedBy(_, _)
\* the sum of the scaled values the calls of the method `fn` add, the
\* reward being squared first for add_squared_reward
AddedBy(calls, fn) ==
    IF calls = <<>> THEN 0
    ELSE (IF calls[1].fn # fn THEN 0
          ELSE IF fn = "add_reward" THEN float_to_scaled_u64(calls[1].reward)
          ELSE float_to_scaled_u64(FMul(calls[1].reward, calls[1].reward)))
         + AddedBy(Tail(calls), fn)

RECURSIVE VisitsCalled(_)
\* the increment_visits calls that returned, over the threads 1..t
VisitsCalled(t) ==
    IF t = 0 THEN 0
    ELSE CallsOf(ReturnedCalls(t), "increment_visits") + VisitsCalled(t - 1)

RECURSIVE RewardAdded(_, _)
\* the sum the calls of `fn` that returned have added, over the threads 1..t
RewardAdded(fn, t) ==
    IF t = 0 THEN 0
    ELSE AddedBy(ReturnedCalls(t), fn) + RewardAdded(fn, t - 1)

\* every thread has completed its program
AllReturned == \A t \in Threads : unit.at[t] = Len(unit.prog[t])

\* C19: when several threads call increment_visits, add_reward and
\* add_squared_reward on one node, no update is lost under any interleaving:
\* at every moment, and so once all calls have completed, visits is the
\* number of increment_visits calls that returned, total_reward the sum of
\* the scaled rewards added and sum_squared_reward the sum of the scaled
\* squares added.
C19_NoLostUpdate ==
    unit.op = "threads" =>
        /\ unit.node.visits = VisitsCalled(MaxThreads)
        /\ unit.node.total_reward = RewardAdded("add_reward", MaxThreads)
        /\ unit.node.sum_squared_reward =
               RewardAdded("add_squared_reward", MaxThreads)

\* two threads that each ran a whole program have finished, the calls of the
\* second lying between the calls of the first
C19_Witness ==
    /\ unit.op = "threads" /\ AllReturned
    /\ unit.prog[1] = <<IncrementVisits, AddReward(FScale),
                        AddSquaredReward(FScale)>>
    /\ unit.prog[2] = <<AddReward(FScale \div 2), IncrementVisits>>
    /\ unit.seen[2].sum_squared_reward = 0
    /\ unit.seen[2].total_reward = 1500000
    /\ unit.node.visits = 2
    /\ unit.node.total_reward = 1500000
    /\ unit.node.sum_squared_reward = 1000000

----------------------------------------------------------------------------
\* a simulate call of a policy of the kind has returned or panicked
SimulateDone(kind) ==
    unit.op = "simulate" /\ unit.done /\ unit.policy.kind = kind

\* C21: HeuristicPolicy.simulate returns get_result for the state's current
\* player when the state is terminal and the value of the heuristic function
\* otherwise; the heuristic function is never used for a terminal state.
C21_HeuristicOnlyNonTerminal ==
    SimulateDone("Heuristic") =>
        /\ ~unit.out.panicked
        /\ IF unit.state.terminal
           THEN unit.out.value = unit.state.result
                /\ unit.out.used = "get_result"
           ELSE unit.out.value = unit.policy.heuristic
                /\ unit.out.used = "heuristic"

\* a terminal state with result 0.25 was simulated under a heuristic of 0.42
C21_Witness ==
    /\ SimulateDone("Heuristic")
    /\ unit.state.terminal
    /\ unit.state.result = 250
    /\ unit.policy.heuristic = 420
    /\ unit.out.value = 250

\* the weighted draw `r` selects no sub-policy of the list
RECURSIVE Exhausted(_, _, _, _)
Exhausted(policies, r, i, cumulative) ==
    IF i > Len(policies) THEN TRUE
    ELSE /\ ~(r < cumulative + policies[i].prob)
         /\ Exhausted(policies, r, i + 1, cumulative + policies[i].prob)

RECURSIVE WeightSum(_)
WeightSum(policies) ==
    IF policies = <<>> THEN 0
    ELSE policies[1].prob + WeightSum(Tail(policies))

\* no draw below the total weight can select a sub-policy
NoHitPossible(policies) ==
    \A r \in 0..WeightSum(policies) :
        r < WeightSum(policies) => Exhausted(policies, r, 1, 0)

\* the outcome is the one of the random simulation policy
ByRandom(out, state) ==
    /\ ~out.panicked
    /\ out.index = NoIndex
    /\ out.used = "simulate_random_playout"
    /\ out.value = simulate_random_playout(state)

\* the outcome is the one of the sub-policy at index i, of positive weight
BySubPolicy(out, policies, state, i) ==
    /\ ~out.panicked
    /\ out.index = i
    /\ out = [Box_simulate(policies[i + 1].policy, state) EXCEPT !.index = i]

\* C22: MixturePolicy.simulate delegates to the random simulation policy
\* when no sub-policy is configured and when the weighted draw exhausts the
\* cumulative weight without selecting a sub-policy; in every other call it
\* returns the result of exactly one configured sub-policy, and with a
\* single sub-policy of positive weight always that one.
C22_MixtureDelegates ==
    SimulateDone("Mixture") =>
        LET policies == unit.policy.policies
        IN IF policies = <<>> \/ NoHitPossible(policies)
           THEN ByRandom(unit.out, unit.state)
           ELSE /\ \E i \in 0..(Len(policies) - 1) :
                      BySubPolicy(unit.out, policies, unit.state, i)
                /\ (Len(policies) = 1 /\ policies[1].prob > 0) =>
                      BySubPolicy(unit.out, policies, unit.state, 0)

----------------------------------------------------------------------------
\* what one update_stats call of the weighted policy adds to the
\* total_reward of a fresh node
Contribution(depth_factor, node, result) ==
    WeightedPolicy_update_stats(depth_factor, node, result).total_reward
        - node.total_reward

\* C23: under WeightedPolicy, for the same positive result and any two depths
\* d1 < d2, the node at depth d2 receives a smaller total_reward contribution
\* than the node at depth d1 when depth_factor > 0 and a larger one when
\* depth_factor < 0.
C23_WeightedDepthOrder ==
    (Updated("Weighted") /\ Len(unit.hist) = 1 /\ unit.result > 0) =>
        \A shallow \in FreshNodes :
            shallow.depth < unit.pre.depth =>
                LET depth_factor == unit.policy.depth_factor
                    deep == unit.node.total_reward - unit.pre.total_reward
                    other == Contribution(depth_factor, shallow, unit.result)
                IN /\ depth_factor > 0 => deep < other
                   /\ depth_factor < 0 => deep > other

----------------------------------------------------------------------------
\* the engine whose loop is running, after the step
EngineNext == IF active = "main" THEN mcts' ELSE derived'

\* the step is a pass of the loop: an iteration
IterationStep == pc = "loop" /\ pc' = "loop" /\ iter' # iter

\* the nodes of `path` from the root down, as paths
Prefixes(path) == { SubSeq(path, 1, k) : k \in 0..Len(path) }

\* C24: every iteration runs selection, expansion, simulation and
\* backpropagation once each, in this order; the time budget is tested only
\* before the iteration starts, so a started iteration completes its
\* backpropagation, and statistics.iterations counts completed iterations,
\* each of which has added exactly one visit to the root.
C24_IterationRunsFourPhases ==
    [][ IterationStep =>
          /\ ~TimeReached
          /\ iter' = iter + 1
          /\ last'.valid
          /\ last'.path = selection(game, Engine).path
          /\ IF last'.expanded
             THEN /\ last'.expanded_path =
                        Append(last'.path,
                               Len(NodeAt(Engine.root, last'.path).children))
                  /\ NodeCount(EngineNext.root) = NodeCount(Engine.root) + 1
             ELSE /\ last'.expanded_path = last'.path
                  /\ NodeCount(EngineNext.root) = NodeCount(Engine.root)
          /\ last'.state = NodeAt(EngineNext.root, last'.expanded_path).state
          /\ \A p \in Prefixes(last'.path) :
                /\ NodeAt(EngineNext.root, p).visits
                      = NodeAt(Engine.root, p).visits + 1
                /\ NodeAt(EngineNext.root, p).total_reward
                      = Plus(NodeAt(Engine.root, p).total_reward, last'.result)
          /\ EngineNext.root.visits = Engine.root.visits + 1
          /\ EngineNext.statistics.iterations = iter + 1 ]_vars

\* the time limit passed while the second iteration of a search ran, and the
\* iteration is complete and counted
C24_Witness ==
    /\ pc = "loop" /\ iter = 2 /\ last.valid
    /\ Engine.config.max_time # NoTime
    /\ elapsed = Engine.config.max_time
    /\ Engine.statistics.iterations = 2
    /\ Engine.root.visits >= 2
    /\ Len(last.path) = 0
    /\ last.expanded

----------------------------------------------------------------------------
RECURSIVE ValidPath(_, _)
\* every index of the path is smaller than the number of children of the
\* node it is applied to
ValidPath(node, path) ==
    \/ path = <<>>
    \/ /\ Head(path) >= 0
       /\ Head(path) < Len(node.children)
       /\ ValidPath(node.children[Head(path) + 1], Tail(path))

\* the selection loop passes through the node
Traversed(g, node) ==
    ~is_terminal(g, node.state) /\ is_fully_expanded(node)
        /\ Len(node.children) >= 1

\* C25: the path selection returns is valid in the tree it ran on; every node
\* on it before the last is non-terminal, fully expanded and has at least one
\* child; the node it ends at is terminal, or not fully expanded, or has no
\* children.
C25_SelectedPathValid ==
    last.valid =>
        /\ ValidPath(last.pre, last.path)
        /\ \A k \in 0..(Len(last.path) - 1) :
              Traversed(game, NodeAt(last.pre, SubSeq(last.path, 1, k)))
        /\ ~Traversed(game, NodeAt(last.pre, last.path))

\* selection went from a fully expanded root to a child that is not terminal
\* and not fully expanded
C25_Witness ==
    /\ last.valid
    /\ Len(last.path) = 1
    /\ Len(last.pre.children) = 2
    /\ last.path[1] = 1
    /\ ~is_terminal(game, NodeAt(last.pre, last.path).state)
    /\ ~is_fully_expanded(NodeAt(last.pre, last.path))

----------------------------------------------------------------------------
RECURSIVE TerminalLeaves(_, _)
RECURSIVE TerminalLeavesOf(_, _)
\* no node of the tree whose state is terminal has a child
TerminalLeaves(g, node) ==
    /\ is_terminal(g, node.state) => node.children = <<>>
    /\ TerminalLeavesOf(g, node.children)
TerminalLeavesOf(g, children) ==
    \/ children = <<>>
    \/ /\ TerminalLeaves(g, children[1])
       /\ TerminalLeavesOf(g, Tail(children))

\* the node selection ends at, on the tree before the step
SelectedNode == NodeAt(Engine.root, selection(game, Engine).path)

\* C26: in every reachable state a node whose state is terminal has no
\* children, even if its unexpanded_actions list is not empty; and when
\* selection ends at a terminal node the iteration simulates that node's own
\* state and adds no node to the tree.
C26_TerminalNeverExpanded ==
    /\ [](TerminalLeaves(game, mcts.root) /\ TerminalLeaves(game, derived.root))
    /\ [][ (IterationStep /\ is_terminal(game, SelectedNode.state)) =>
              /\ last'.state = SelectedNode.state
              /\ last'.expanded_path = selection(game, Engine).path
              /\ NodeCount(EngineNext.root) = NodeCount(Engine.root) ]_vars

\* a terminal root that reports legal actions was searched and has no child
C26_Witness ==
    /\ last.valid
    /\ is_terminal(game, mcts.root.state)
    /\ mcts.root.unexpanded_actions # <<>>
    /\ mcts.root.visits >= 2
    /\ mcts.root.children = <<>>

----------------------------------------------------------------------------
\* selection ends at a node that is not terminal and has nothing to expand
NothingToExpand ==
    /\ ~is_terminal(game, SelectedNode.state)
    /\ SelectedNode.unexpanded_actions = <<>>

\* C27: if the node selection reaches is not terminal but has no unexpanded
\* action, the iteration does not fail: it adds no node, hands the node's own
\* state to the simulation, and backpropagation still updates the root and
\* the nodes of the selected path.
C27_NoExpansionStillBackpropagates ==
    [][ (pc = "loop" /\ iter' # iter /\ NothingToExpand) =>
          /\ pc' = "loop"
          /\ EngineNext.statistics.iterations = iter + 1
          /\ ~last'.expanded
          /\ NodeCount(EngineNext.root) = NodeCount(Engine.root)
          /\ last'.state = SelectedNode.state
          /\ \A p \in Prefixes(selection(game, Engine).path) :
                /\ NodeAt(EngineNext.root, p).visits
                      = NodeAt(Engine.root, p).visits + 1
                /\ NodeAt(EngineNext.root, p).total_reward
                      = Plus(NodeAt(Engine.root, p).total_reward, last'.result)
        ]_vars

\* an iteration ended at a child that is not terminal and has no action: no
\* node was added and the child got its visit
C27_Witness ==
    /\ pc = "loop" /\ active = last.engine
    /\ last.valid /\ ~last.expanded
    /\ Len(last.path) = 1
    /\ ~is_terminal(game, last.state)
    /\ NodeAt(last.pre, last.path).unexpanded_actions = <<>>
    /\ NodeAt(Engine.root, last.path).visits
          = NodeAt(last.pre, last.path).visits + 1
    /\ Engine.root.visits = last.pre.visits + 1

----------------------------------------------------------------------------
\* no child of the node has two or more visits while a sibling has none
SiblingsInTurn(node) ==
    \A i, j \in 1..Len(node.children) :
        ~(node.children[i].visits >= 2 /\ node.children[j].visits = 0)

RECURSIVE InTurn(_)
RECURSIVE InTurnOf(_)
\* SiblingsInTurn at every node of the tree
InTurn(node) == SiblingsInTurn(node) /\ InTurnOf(node.children)
InTurnOf(children) ==
    children = <<>> \/ (InTurn(children[1]) /\ InTurnOf(Tail(children)))

\* C28: at every iteration boundary of a search and for every node of the
\* tree, no child has two or more visits while a sibling has zero visits.
C28_UnvisitedSiblingsFirst == InTurn(mcts.root) /\ InTurn(derived.root)

----------------------------------------------------------------------------
\* an expand or expand_with_pool call has returned
Expanded == unit.op \in {"expand", "expand_with_pool"} /\ unit.done

InBounds == unit.action_index < Len(unit.node.unexpanded_actions)

\* C29: for i < unexpanded_actions.len(), expand(i) removes exactly the
\* action a that was at index i (the former last action takes position i,
\* every other position is unchanged) and appends as the last child a node
\* with action Some(a), the state apply_action gives for the parent's state
\* and a, the parent state's current player, zero counters and the new
\* state's legal actions as unexpanded_actions; the children there were and
\* every other field of the parent are unchanged.
C29_ExpandMovesOneAction ==
    (unit.op = "expand" /\ unit.done /\ InBounds) =>
        LET old == unit.node
            new == unit.out.node
            i == unit.action_index + 1
            n == Len(old.unexpanded_actions)
            a == old.unexpanded_actions[i]
            child == new.children[Len(new.children)]
        IN /\ unit.out.ok
           /\ Len(new.unexpanded_actions) = n - 1
           /\ \A k \in 1..(n - 1) :
                 new.unexpanded_actions[k] =
                    IF k = i THEN old.unexpanded_actions[n]
                    ELSE old.unexpanded_actions[k]
           /\ Len(new.children) = Len(old.children) + 1
           /\ SubSeq(new.children, 1, Len(old.children)) = old.children
           /\ child.action = a
           /\ child.state = Append(old.state, a)
           /\ child.player = (Len(old.state) % 2) + 1
           /\ child.depth = old.depth + 1
           /\ child.visits = 0 /\ child.total_reward = 0
           /\ child.sum_squared_reward = 0
           /\ child.rave_visits = 0 /\ child.rave_reward = 0
           /\ child.children = <<>>
           /\ child.unexpanded_actions = get_legal_actions(ExpandGame, child.state)
           /\ new = [old EXCEPT !.unexpanded_actions = new.unexpanded_actions,
                                !.children = new.children]

\* expand(0) on a visited node with one child and the unexpanded actions
\* 3, 2: action 3 goes to the new child and 2 takes its place
C29_Witness ==
    /\ unit.op = "expand" /\ unit.done
    /\ unit.action_index = 0
    /\ unit.node.visits = 1
    /\ unit.node.unexpanded_actions = <<3, 2>>
    /\ unit.out.node.unexpanded_actions = <<2>>
    /\ Len(unit.out.node.children) = 2
    /\ unit.out.node.children[2].action = 3

\* C30: expand(i) and expand_with_pool(i, pool) with
\* i >= unexpanded_actions.len() return None and leave the node (children,
\* unexpanded_actions, counters) and the pool (free list, total_allocations,
\* total_created) unchanged.
C30_OutOfBoundsChangesNothing ==
    (Expanded /\ ~InBounds) =>
        /\ ~unit.out.ok
        /\ unit.out.node = unit.node
        /\ unit.out.pool = unit.pool

\* expand_with_pool(1, pool) on a node with one unexpanded action and a pool
\* with a free node
C30_Witness ==
    /\ unit.op = "expand_with_pool" /\ unit.done
    /\ unit.action_index = 1
    /\ Len(unit.node.unexpanded_actions) = 1
    /\ Len(unit.pool.free_nodes) = 2
    /\ ~unit.out.ok
    /\ Len(unit.out.pool.free_nodes) = 2

----------------------------------------------------------------------------
RECURSIVE ChildrenLinked(_)
RECURSIVE ChildrenLinkedOf(_, _)
\* every child of the node, and of every node below it, is one deeper than
\* its parent and carries the action that leads from the parent's state to
\* its own
ChildrenLinked(node) == ChildrenLinkedOf(node, node.children)
ChildrenLinkedOf(parent, children) ==
    \/ children = <<>>
    \/ /\ children[1].depth = parent.depth + 1
       /\ children[1].action # None
       /\ apply_action(parent.state, children[1].action) = children[1].state
       /\ ChildrenLinked(children[1])
       /\ ChildrenLinkedOf(parent, Tail(children))

\* the root is at depth 0 and has no action, and its tree is linked
RootedTree(root) ==
    /\ root.depth = 0
    /\ root.action = None
    /\ ChildrenLinked(root)

\* C31: in every reachable tree, with or without the node pool and with nodes
\* refurbished from the free list, the root has depth 0 and action None, and
\* every other node has its parent's depth + 1 and an action Some(a) such
\* that applying a to the parent's state gives the node's state.
C31_DepthAndActionLinked == RootedTree(mcts.root) /\ RootedTree(derived.root)

\* a pooled engine that recycled nodes has a node at depth 2 again, made
\* when the pool had handed out more nodes than it had fabricated
C31_Witness ==
    /\ mcts.has_pool
    /\ mcts.node_pool.total_recycled > 0
    /\ mcts.node_pool.total_allocations > 0
    /\ mcts.node_pool.total_created = mcts.config.node_pool_size
    /\ \E i \in 1..Len(mcts.root.children) :
          mcts.root.children[i].children # <<>>

----------------------------------------------------------------------------
\* the counters of a pool agree with its free list, and the pool has handed
\* out at least as many nodes as it has taken back
PoolBalanced(pool) ==
    /\ available_nodes(pool)
          = pool.total_created + pool.total_recycled - pool.total_allocations
    /\ pool.total_allocations >= pool.total_recycled

\* C32: for a pool owned by an engine, in every reachable state
\* available_nodes() = total_created + total_recycled - total_allocations
\* and total_allocations >= total_recycled.
C32_PoolAccounting ==
    /\ mcts.has_pool => PoolBalanced(mcts.node_pool)
    /\ derived.has_pool => PoolBalanced(derived.node_pool)

----------------------------------------------------------------------------
RECURSIVE StatesOf(_)
RECURSIVE StatesOfAll(_)
\* the states of the nodes of a tree; in a tree no two nodes share a state
StatesOf(node) == {node.state} \cup StatesOfAll(node.children)
StatesOfAll(children) ==
    IF children = <<>> THEN {}
    ELSE StatesOf(children[1]) \cup StatesOfAll(Tail(children))

\* s is the state of a proper descendant of the node whose state is t
Below(s, t) == Len(s) > Len(t) /\ SubSeq(s, 1, Len(t)) = t

\* the nodes a call pushed: the free list after it, less the list before it
Pushed(pre, post) == SubSeq(post.free_nodes, Len(pre.free_nodes) + 1,
                            Len(post.free_nodes))

\* the pushed nodes are the nodes of the tree, each once and after all of
\* its descendants, and the counters rose by their number
RecycledBottomUp(root, pre, post, pushed) ==
    /\ Len(post.free_nodes) >= Len(pre.free_nodes)
    /\ SubSeq(post.free_nodes, 1, Len(pre.free_nodes)) = pre.free_nodes
    /\ Len(pushed) = NodeCount(root)
    /\ { pushed[i].state : i \in 1..Len(pushed) } = StatesOf(root)
    /\ \A i, j \in 1..Len(pushed) :
          Below(pushed[i].state, pushed[j].state) => i < j
    /\ post.total_recycled = pre.total_recycled + NodeCount(root)
    /\ available_nodes(post) = available_nodes(pre) + NodeCount(root)

\* C33: NodePool::recycle_tree(root) and recycle_subtree_recursive push
\* every node of the subtree onto the free list exactly once, each node only
\* after all of its descendants, and increase total_recycled and
\* available_nodes() by exactly the number of nodes in the subtree.
C33_RecycledOnceBottomUp ==
    (unit.op \in {"recycle_tree", "recycle_subtree_recursive"} /\ unit.done)
        => RecycledBottomUp(unit.root, unit.pool, unit.out,
                            Pushed(unit.pool, unit.out))

\* a tree of a root, two children and a grandchild went into a pool whose
\* free list held a node: four nodes were pushed, the root last
C33_Witness ==
    /\ unit.op = "recycle_subtree_recursive" /\ unit.done
    /\ Len(unit.root.children) = 2
    /\ Len(unit.root.children[1].children) = 1
    /\ unit.pool.free_nodes # <<>>
    /\ Len(unit.out.free_nodes) = Len(unit.pool.free_nodes) + 4
    /\ unit.out.free_nodes[Len(unit.out.free_nodes)].state = unit.root.state

----------------------------------------------------------------------------
\* C34: after any search() or search_for_iterations() call that returns Ok,
\* first or repeated, with or without pooling, statistics.tree_size equals
\* the number of nodes in the engine's tree, the root included.
C34_TreeSizeCountsNodes ==
    (Returned /\ MainCall /\ ret.ok)
        => mcts.statistics.tree_size = NodeCount(mcts.root)

----------------------------------------------------------------------------
\* the score the policy gives child i (0-based) of the node
Score(policy, node, i) ==
    CASE policy.kind = "UCB1" ->
            ucb1_value(policy.exploration_constant, value(node.children[i + 1]),
                       node.children[i + 1].visits, node.visits)
      [] policy.kind = "UCB1Tuned" ->
            ucb1_tuned_value(policy.exploration_constant, node.children[i + 1],
                             node.visits)
      [] policy.kind = "PUCT" ->
            puct_value(policy.exploration_constant, node.children[i + 1],
                       node.visits)

\* the children whose score no other child's score exceeds
Maximal(policy, node) ==
    { i \in 0..(Len(node.children) - 1) :
        \A j \in 0..(Len(node.children) - 1) :
            ~FGt(Score(policy, node, j), Score(policy, node, i)) }

\* a node with the same counters (visits, rewards, prior) and nothing else
\* of the original: another state, action, depth, player and action list
CountersOnly(node) ==
    [node EXCEPT !.state = <<2, 2>>, !.action = 2, !.depth = 3, !.player = 2,
                 !.rave_visits = 1, !.unexpanded_actions = <<2>>]

\* the node and its children reduced to their counters
SameStatistics(node) ==
    [CountersOnly(node) EXCEPT
        !.children = [i \in 1..Len(node.children) |->
                         CountersOnly(node.children[i])]]

\* C35: when every child of the node has been visited, select_child of each
\* selection policy returns the lowest index among the children that attain
\* the maximal score, and it is a function of the statistics of the node and
\* its children alone: a call on equal statistics returns the same index.
C35_FirstMaximalChild ==
    (sel.done /\ Unvisited(sel.node) = {}) =>
        /\ sel.out \in Maximal(sel.policy, sel.node)
        /\ \A i \in Maximal(sel.policy, sel.node) : sel.out <= i
        /\ select_child(sel.policy, SameStatistics(sel.node)) = sel.out

\* three visited children, the last two tied for the best score: the call
\* returned the second child
C35_Witness ==
    /\ sel.done /\ Unvisited(sel.node) = {}
    /\ Len(sel.node.children) = 3
    /\ Maximal(sel.policy, sel.node) = {1, 2}
    /\ sel.out = 1

----------------------------------------------------------------------------
RECURSIVE VisitsOf(_)
\* the sum of the visits of the nodes of the list
VisitsOf(children) ==
    IF children = <<>> THEN 0
    ELSE children[1].visits + VisitsOf(Tail(children))

RECURSIVE VisitsCover(_)
RECURSIVE VisitsCoverOf(_)
\* the node, and every node below it, has at least as many visits as its
\* children have together, and at least as many as it has children
VisitsCover(node) ==
    /\ node.visits >= VisitsOf(node.children)
    /\ node.visits >= Len(node.children)
    /\ VisitsCoverOf(node.children)
VisitsCoverOf(children) ==
    children = <<>> \/ (VisitsCover(children[1]) /\ VisitsCoverOf(Tail(children)))

\* C36: at every iteration boundary and for every node of the engine's tree,
\* the node's visits are at least the sum of the visits of its children, and
\* at least the number of its children.
C36_VisitsCoverChildren == VisitsCover(mcts.root) /\ VisitsCover(derived.root)

\* four iterations on one tree: both children of the root were visited and
\* the first has a child of its own
C36_Witness ==
    /\ pc = "loop" /\ last.valid
    /\ mcts.root.visits = 4
    /\ Len(mcts.root.children) = 2
    /\ mcts.root.children[1].visits = 1
    /\ mcts.root.children[2].visits = 1
    /\ Len(mcts.root.children[1].children) = 1

----------------------------------------------------------------------------
RECURSIVE PathsOf(_)
\* the paths of the nodes of the tree, the root's being <<>>
PathsOf(node) ==
    {<<>>} \cup UNION { { <<i - 1>> \o p : p \in PathsOf(node.children[i]) } :
                          i \in 1..Len(node.children) }

\* the fields of a node that are neither counters nor lists
Identity(node) ==
    [state |-> node.state, action |-> node.action, depth |-> node.depth,
     player |-> node.player, prior |-> node.prior,
     rave_visits |-> node.rave_visits, rave_reward |-> node.rave_reward]

\* old and new are the node where selection stopped, before and after: the
\* lists are kept, or one action left unexpanded_actions and one child was
\* appended behind the children, which are as they were
AtMostOneChildAppended(old, new) ==
    \/ /\ new.children = old.children
       /\ new.unexpanded_actions = old.unexpanded_actions
    \/ /\ Len(new.children) = Len(old.children) + 1
       /\ SubSeq(new.children, 1, Len(old.children)) = old.children
       /\ Len(new.unexpanded_actions) = Len(old.unexpanded_actions) - 1
       /\ Range(new.unexpanded_actions) \subseteq Range(old.unexpanded_actions)

\* what an iteration along `path` may change between the trees pre and post
IterationFrame(pre, post, path) ==
    /\ PathsOf(post) \subseteq
          PathsOf(pre) \cup {Append(path, Len(NodeAt(pre, path).children))}
    /\ \A p \in PathsOf(pre) :
          IF p \in Prefixes(path)
          THEN /\ Identity(NodeAt(post, p)) = Identity(NodeAt(pre, p))
               /\ IF p = path
                  THEN AtMostOneChildAppended(NodeAt(pre, p), NodeAt(post, p))
                  ELSE /\ Len(NodeAt(post, p).children)
                             = Len(NodeAt(pre, p).children)
                       /\ NodeAt(post, p).unexpanded_actions
                             = NodeAt(pre, p).unexpanded_actions
          ELSE NodeAt(post, p) = NodeAt(pre, p)

\* C37: one iteration changes the counters only of the root and of the nodes
\* on its path; every other node keeps its counters, its children and its
\* unexpanded_actions, and the only structural change is at most one child
\* appended to the node where selection stopped.
C37_IterationFrame ==
    [][ IterationStep =>
            IterationFrame(Engine.root, EngineNext.root,
                           selection(game, Engine).path) ]_vars

\* the fourth iteration went through the root's second child and expanded
\* it, while the first child, visited before and a parent itself, is as it was
C37_Witness ==
    /\ pc = "loop" /\ active = last.engine
    /\ last.valid /\ last.expanded
    /\ last.path = <<1>>
    /\ NodeAt(last.pre, <<0>>).visits = 1
    /\ NodeAt(last.pre, <<0>>).children # <<>>
    /\ NodeAt(Engine.root, <<0>>) = NodeAt(last.pre, <<0>>)
    /\ NodeAt(Engine.root, <<1>>).visits = NodeAt(last.pre, <<1>>).visits + 1

----------------------------------------------------------------------------
\* C38: for a single search on a freshly created engine, an engine with a
\* node pool and an engine without one, given the same state, policies,
\* expansion choices and simulation results, build trees with the same
\* shape, actions, depths and counters, report the same iterations and
\* tree_size and return the same action.
C38_PoolingChangesNothingElse ==
    unit.op = "pair" =>
        /\ unit.pooled.root = unit.plain.root
        /\ unit.pooled.statistics.iterations = unit.plain.statistics.iterations
        /\ unit.pooled.statistics.tree_size = unit.plain.statistics.tree_size
        /\ unit.pooled_ret = unit.plain_ret

\* both searches returned the same action; the pooled engine's pool was made
\* by search with one node, which became the first child, and the second
\* child was fabricated
C38_Witness ==
    /\ unit.op = "pair" /\ unit.at = "done" /\ unit.fn = "search"
    /\ unit.plain_ret.ok
    /\ unit.plain.statistics.iterations = 2
    /\ NodeCount(unit.pooled.root) = 3
    /\ unit.pooled.has_pool
    /\ unit.pooled.config.node_pool_size = 1
    /\ unit.pooled.node_pool.total_allocations = 2
    /\ unit.pooled.node_pool.total_created = 2
    /\ unit.pooled.node_pool.free_nodes = <<>>
    /\ ~unit.plain.has_pool

----------------------------------------------------------------------------
\* by how much the counter grew from old to new, the counter being a u64
Growth(old, new) == (new - old + U64Modulus) % U64Modulus

\* every node along `path`, the root included, gained one visit, and its
\* total_reward and sum_squared_reward grew as the root's did: by the scaled
\* result and by the scaled square of the result
SameResultAlong(pre, post, path, result) ==
    \A p \in Prefixes(path) :
        /\ Growth(NodeAt(pre, p).visits, NodeAt(post, p).visits) = 1
        /\ Growth(NodeAt(pre, p).total_reward, NodeAt(post, p).total_reward)
              = Growth(pre.total_reward, post.total_reward)
        /\ Growth(NodeAt(pre, p).total_reward, NodeAt(post, p).total_reward)
              = float_to_scaled_u64(result)
        /\ Growth(NodeAt(pre, p).sum_squared_reward,
                  NodeAt(post, p).sum_squared_reward)
              = float_to_scaled_u64(FMul(result, result))

\* C39: within one iteration every node that is updated receives the same
\* simulation result: the root and each node of the path, whichever player
\* moves there, so that all updated nodes' total_reward grow by the same
\* amount.
C39_OneResultForAllNodes ==
    [][ IterationStep =>
            SameResultAlong(Engine.root, EngineNext.root,
                            selection(game, Engine).path, last'.result) ]_vars

\* an iteration with result 1.0 went through the root, its child and its
\* grandchild, the players to move alternating: all three gained 1.0
C39_Witness ==
    /\ pc = "loop" /\ active = last.engine
    /\ last.valid /\ last.result = 1 * FScale
    /\ Len(last.path) = 2
    /\ get_current_player(NodeAt(last.pre, <<last.path[1]>>).state)
          # get_current_player(last.pre.state)
    /\ get_current_player(NodeAt(last.pre, last.path).state)
          = get_current_player(last.pre.state)
    /\ \A p \in Prefixes(last.path) :
          Growth(NodeAt(last.pre, p).total_reward,
                 NodeAt(Engine.root, p).total_reward) = REWARD_SCALE

----------------------------------------------------------------------------
\* every node on the pool's free list has no child and no unexpanded action
FreeListCleared(pool) ==
    \A i \in 1..Len(pool.free_nodes) :
        /\ pool.free_nodes[i].children = <<>>
        /\ pool.free_nodes[i].unexpanded_actions = <<>>

\* C40: in every reachable state of a pool, every node on the free list,
\* pre-allocated placeholder or recycled node, has an empty children list and
\* an empty unexpanded_actions list.
C40_FreeNodesHoldNoLists ==
    FreeListCleared(mcts.node_pool) /\ FreeListCleared(derived.node_pool)

\* the free list of the engine's pool holds a recycled node of depth 2 and,
\* behind it, the node that was its parent
C40_Witness ==
    /\ mcts.has_pool
    /\ \E i, j \in 1..Len(mcts.node_pool.free_nodes) :
          /\ i < j
          /\ mcts.node_pool.free_nodes[i].depth = 2
          /\ Below(mcts.node_pool.free_nodes[i].state,
                   mcts.node_pool.free_nodes[j].state)
          /\ mcts.node_pool.free_nodes[j].action # None

====
